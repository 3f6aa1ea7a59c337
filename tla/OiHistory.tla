----------------------------- MODULE OiHistory -----------------------------
(***************************************************************************)
(* The import of historical option interest                                *)
(* (backend/markets/nse/oi_history.py) into the append-only files of       *)
(* OiRegimeRepository (oi_regime.py).  An operator runs the import again   *)
(* after a failure; what an earlier run fetched, appended or wrote is on   *)
(* disk in whatever state a crash or an error of the disk left it.         *)
(*                                                                         *)
(* A task is a range of days of one strike and option type; the provider   *)
(* has one row for each day of it.  A line of a file holds a row, or Junk  *)
(* that does not parse.  An append that is cut off may leave a last line   *)
(* that has no end; the next append goes on in that line, which then is    *)
(* Junk: the row that is written there is lost, and so is the row of the   *)
(* line if all of it but the newline had been written.                     *)
(***************************************************************************)
EXTENDS Integers, Sequences, FiniteSets, SequencesExt

CONSTANTS
    HistoryTasks,   \* number of tasks
    HistoryDays,    \* days of the range of a task
    HistoryBars,    \* LookbackBars: bars at the start of a range without a regime
    MaxBreaks       \* bound: crashes and errors of the provider or the disk

ASSUME HistoryBoundsAreNatural ==
    {HistoryTasks, HistoryDays} \subseteq Nat \ {0} /\ {HistoryBars, MaxBreaks} \subseteq Nat

VARIABLES
    optionFile, regimeFile,     \* sequences of lines
    payloads,                   \* the ranges in the response cache, <<task, from, to>>
    spotFile,                   \* the spot cache: absent, whole or torn
    manifest,                   \* history-import.json
    hAt, hTask, hStack, known,  \* the run under way: its step and memory
    tornAppends, breaks

hDisk == <<optionFile, regimeFile, payloads, spotFile>>
hRun == <<hAt, hTask, hStack, known>>
historyVars == <<hDisk, manifest, hRun, tornAppends, breaks>>
-----------------------------------------------------------------------------
Junk == [task |-> 0, day |-> 0]
TaskRows(t) == {[task |-> t, day |-> d] : d \in 1..HistoryDays}
AllRows == UNION {TaskRows(t) : t \in 1..HistoryTasks}

Line(row) == [row |-> row, ended |-> TRUE]
Lines(rows) == [i \in 1..Len(rows) |-> Line(rows[i])]

\* _read skips the lines that do not parse.
Readable(file) == {l.row : l \in ToSet(file)} \ {Junk}

Unended(file) == file # <<>> /\ ~file[Len(file)].ended
Piece(row) == [row |-> row, ended |-> FALSE]

\* _append: the rows are written behind the last byte of the file.
Appended(file, rows) ==
    IF rows # <<>> /\ Unended(file)
    THEN Append(Front(file), Line(Junk)) \o Lines(Tail(rows)) ELSE file \o Lines(rows)

\* What may be left of it: some rows, and the next one without its end.
Cuts(file, rows) ==
    LET after(n) == {Append(Appended(file, SubSeq(rows, 1, n)), Piece(r)) : r \in {Junk, rows[n + 1]}}
    IN  UNION {IF n = 0 /\ Unended(file) THEN {Append(Front(file), Piece(Junk))} ELSE after(n) :
                 n \in 0..(Len(rows) - 1)}

\* Rows in the order of their days, of which no two are the same.
ByDay(rows) ==
    [i \in 1..Cardinality(rows) |-> CHOOSE r \in rows : Cardinality({q \in rows : q.day <= r.day}) = i]

\* The rows of a task that are not known yet, in the order of the payload.
FreshAll(t) == ByDay(TaskRows(t))
Fresh(t) == ByDay(TaskRows(t) \ known)

\* _materialize_regimes: one regime per bar with options, except the first ones of
\* the range and those that have one.
BarsOf(file) == {r.day : r \in Readable(file)}
NewRegimes ==
    LET bars == BarsOf(optionFile)
        due == {d \in bars : Cardinality({e \in bars : e < d}) >= HistoryBars}
    IN  ByDay({[task |-> -1, day |-> d] : d \in due \ BarsOf(regimeFile)})
-----------------------------------------------------------------------------
\* run, at any time again: the manifest says RUNNING, the keys on disk are read once.
StartImport ==
    /\ hAt = "idle"
    /\ manifest' = "RUNNING"
    /\ known' = Readable(optionFile)
    /\ hTask' = 1 /\ hStack' = <<[from |-> 1, to |-> HistoryDays + 1, join |-> FALSE]>>
    /\ hAt' = "fetch"
    /\ UNCHANGED <<hDisk, tornAppends, breaks>>

RangeOf(f) == <<hTask, f.from, f.to>>
Fetched(stack) == IF stack = <<>> THEN "append" ELSE "fetch"

\* _expired_payload: the response cache answers, or the provider, whose answer is
\* cached by an atomic replace.  A range that was split is cached when both halves
\* are there.
FetchPayload ==
    /\ hAt = "fetch"
    /\ payloads' = payloads \cup {RangeOf(Head(hStack))}
    /\ hStack' = Tail(hStack)
    /\ hAt' = Fetched(hStack')
    /\ UNCHANGED <<optionFile, regimeFile, spotFile, manifest, hTask, known, tornAppends, breaks>>

\* A network failure of more than two days: each half on its own.
SplitRange ==
    /\ hAt = "fetch" /\ breaks < MaxBreaks
    /\ LET f == Head(hStack)
           mid == f.from + (f.to - f.from) \div 2
       IN  /\ RangeOf(f) \notin payloads /\ ~f.join /\ f.to - f.from > 2
           /\ hStack' = <<[f EXCEPT !.to = mid], [f EXCEPT !.from = mid], [f EXCEPT !.join = TRUE]>>
                          \o Tail(hStack)
    /\ breaks' = breaks + 1
    /\ UNCHANGED <<hDisk, manifest, hAt, hTask, known, tornAppends>>

\* Any other error of the provider: INTERRUPTED, to be resumed.
ImportFails ==
    /\ \/ hAt = "fetch" /\ ~Head(hStack).join /\ RangeOf(Head(hStack)) \notin payloads
       \/ hAt = "spot" /\ spotFile = "absent"
    /\ breaks < MaxBreaks
    /\ breaks' = breaks + 1
    /\ manifest' = "INTERRUPTED"
    /\ hAt' = "idle" /\ hStack' = <<>> /\ known' = {}
    /\ UNCHANGED <<hDisk, hTask, tornAppends>>

AppendTask ==
    /\ hAt = "append"
    /\ optionFile' = Appended(optionFile, Fresh(hTask))
    /\ known' = known \cup TaskRows(hTask)
    /\ hTask' = IF hTask < HistoryTasks THEN hTask + 1 ELSE hTask
    /\ hStack' = IF hTask < HistoryTasks
                 THEN <<[from |-> 1, to |-> HistoryDays + 1, join |-> FALSE]>> ELSE <<>>
    /\ hAt' = IF hTask < HistoryTasks THEN "fetch" ELSE "spot"
    /\ UNCHANGED <<regimeFile, payloads, spotFile, manifest, tornAppends, breaks>>

\* _fetch_spot_history reads its file or fetches and writes it, not atomically.
FetchSpot ==
    /\ hAt = "spot" /\ spotFile # "torn"
    /\ spotFile' = "whole"
    /\ hAt' = "regimes"
    /\ UNCHANGED <<optionFile, regimeFile, payloads, manifest, hTask, hStack, known, tornAppends, breaks>>

\* A torn spot file raises EOFError, which nobody catches.
SpotUnreadable ==
    /\ hAt = "spot" /\ spotFile = "torn"
    /\ hAt' = "idle" /\ known' = {}
    /\ UNCHANGED <<hDisk, manifest, hTask, hStack, tornAppends, breaks>>

MaterializeRegimes ==
    /\ hAt = "regimes"
    /\ regimeFile' = Appended(regimeFile, NewRegimes)
    /\ hAt' = "finish"
    /\ UNCHANGED <<optionFile, payloads, spotFile, manifest, hTask, hStack, known, tornAppends, breaks>>

FinishImport ==
    /\ hAt = "finish"
    /\ manifest' = "COMPLETE"
    /\ hAt' = "idle" /\ known' = {}
    /\ UNCHANGED <<hDisk, hTask, hStack, tornAppends, breaks>>

\* The process dies, between two writes or in one, or a write raises OSError, which run
\* reports as INTERRUPTED.
Die(cuts) ==
    /\ hAt # "idle" /\ breaks < MaxBreaks
    /\ breaks' = breaks + 1 /\ tornAppends' = tornAppends + cuts
    /\ hAt' = "idle" /\ hStack' = <<>> /\ known' = {}
    /\ manifest' \in {manifest, "INTERRUPTED"}
    /\ UNCHANGED <<payloads, hTask>>

DieBetweenWrites == Die(0) /\ UNCHANGED <<optionFile, regimeFile, spotFile>>

DieAppending ==
    /\ hAt \in {"append", "regimes"}
    /\ Die(1)
    /\ LET rows == IF hAt = "append" THEN Fresh(hTask) ELSE NewRegimes
       IN  IF hAt = "append"
           THEN optionFile' \in Cuts(optionFile, rows) /\ UNCHANGED regimeFile
           ELSE regimeFile' \in Cuts(regimeFile, rows) /\ UNCHANGED optionFile
    /\ UNCHANGED spotFile

DieWritingSpot ==
    /\ hAt = "spot" /\ spotFile = "absent"
    /\ Die(0)
    /\ spotFile' = "torn"
    /\ UNCHANGED <<optionFile, regimeFile>>
-----------------------------------------------------------------------------
HistoryInit ==
    /\ optionFile = <<>> /\ regimeFile = <<>> /\ payloads = {} /\ spotFile = "absent"
    /\ manifest = "NOT_IMPORTED"
    /\ hAt = "idle" /\ hTask = 1 /\ hStack = <<>> /\ known = {}
    /\ tornAppends = 0 /\ breaks = 0

ImportStep == \/ StartImport \/ FetchPayload \/ AppendTask \/ FetchSpot \/ SpotUnreadable
              \/ MaterializeRegimes \/ FinishImport
ImportFault == SplitRange \/ ImportFails \/ DieBetweenWrites \/ DieAppending \/ DieWritingSpot
HistoryNext == ImportStep \/ ImportFault

HistorySpec == HistoryInit /\ [][HistoryNext]_historyVars
-----------------------------------------------------------------------------
\* An import that reports COMPLETE, however often it was interrupted and resumed,
\* has every row of the provider on disk, once, except for two rows for each append
\* that was cut off: one that lost its end and one that was put behind it.
ResumedImportIsWhole ==
    manifest = "COMPLETE" =>
        /\ Cardinality(AllRows \ Readable(optionFile)) <= 2 * tornAppends
        /\ \A i, j \in DOMAIN optionFile :
               i # j /\ optionFile[i].row = optionFile[j].row => optionFile[i].row = Junk

=============================================================================
