----------------------------- MODULE LiveSignals ----------------------------
(***************************************************************************)
(* The live signals of one intraday deployment (market, strategy, symbol   *)
(* and timeframe): the worker that polls completed candles                     *)
(* (backend/signals/workers.py), the engine that advances open signals and *)
(* stores new ones (signals/engine.py, candle_processor.py, recovery.py),  *)
(* TradingView alerts that arrive as web requests and store signals of     *)
(* their own (integrations/tradingview.py), and the table both write       *)
(* (LiveSignalRepository). The paper broker is the listener at the end;    *)
(* PaperBroker models what it does.                                        *)
(***************************************************************************)
EXTENDS Integers, Sequences, FiniteSets

CONSTANTS
    Deliveries,   \* web requests that carry an alert; TradingView may repeat one
    Event,        \* Event[d]: the alert's event id
    AlertCandle,  \* AlertCandle[d]: its candleTimestamp
    MaxTime,      \* bound: candles of the provider
    Holding,      \* maximum_holding_bars
    Rows,         \* the deployment rows an operator may save, [mode |-> _, source |-> _]
    Kinds,        \* the candles the provider may bring, [move |-> _, buy |-> _]
    MaxFaults,    \* bound: errors of the database, the provider, the listener, ends of the process
    MaxChanges    \* bound: changes of the deployment row

ASSUME SignalBounds == MaxTime \in Nat /\ Holding \in Nat \ {0}
ASSUME RowsAssumption == Rows \subseteq [mode : {"OFF", "SIGNALS", "PAPER"}, source : {"OPENDELTA", "TRADINGVIEW"}]
ASSUME KindsAssumption == Kinds \subseteq [move : {"up", "down", "flat"}, buy : BOOLEAN]
ASSUME AlertsNameCandles == AlertCandle \in [Deliveries -> 1 .. MaxTime]

VARIABLES
    candle,       \* candle[t]: completed candle t, [move |-> _, buy |-> _]
    deployment,   \* the deployment row, [mode |-> _, source |-> _]
    signal,       \* signal[t]: status of the signal of candle t, "none" before the insert
    owner,        \* owner[t]: event that wrote it, "engine" for the strategy
    exit,         \* exit[t]: candle that closed it, 0 before
    worker,       \* where the worker's thread stands
    settings,     \* the deployment as the worker was built with it
    latest,       \* newest candle of the in-memory history, 0 when it is empty
    todo,         \* candles of the batch the engine has left
    delivery,     \* delivery[d]: where the request stands
    seenMode,     \* seenMode[d]: mode of the deployment as the request read it
    heard,        \* heard[t]: times the broker was handed the signal of t
    passedOver,   \* candles the engine will not apply again (history)
    lost,         \* signals whose hand-over to the broker failed (history)
    wanted,       \* signals stored for a PAPER deployment (history)
    late,         \* late[t]: newest candle applied before signal t was stored (history)
    faults, changes

table == <<signal, owner, exit>>
memory == <<worker, settings, latest, todo>>
history == <<heard, passedOver, lost, wanted, late>>
bounds == <<faults, changes>>
vars == <<candle, deployment, table, memory, delivery, seenMode, history, bounds>>

Now == Len(candle)

Times == 1 .. MaxTime

Open == {"STRONG_BUY", "HOLDING"}

AtBatch == {"advance", "evaluate", "publish"}

Fault == faults < MaxFaults /\ faults' = faults + 1

SignalsInit ==
    /\ candle = <<>>
    /\ deployment \in Rows
    /\ signal = [t \in Times |-> "none"]
    /\ owner = [t \in Times |-> "none"]
    /\ exit = [t \in Times |-> 0]
    /\ worker = "down" /\ settings = deployment
    /\ latest = 0 /\ todo = <<>>
    /\ delivery = [d \in Deliveries |-> "sent"]
    /\ seenMode = [d \in Deliveries |-> "OFF"]
    /\ heard = [t \in Times |-> 0]
    /\ passedOver = {} /\ lost = {} /\ wanted = {}
    /\ late = [t \in Times |-> 0]
    /\ faults = 0 /\ changes = 0

\* Candles the engine has applied to the open signals or given up.
Applied == IF worker \in AtBatch
             THEN IF worker = "advance" THEN Head(todo) - 1 ELSE Head(todo)
             ELSE latest

-----------------------------------------------------------------------------
(* The market.                                                             *)

NewCandle(kind) ==
    /\ Now < MaxTime
    /\ candle' = Append(candle, kind)
    /\ UNCHANGED <<deployment, table, memory, delivery, seenMode, history, bounds>>

-----------------------------------------------------------------------------
(* The table: insert_new, close, mark_holding.                             *)

\* Mutant: the uniqueness constraint does not cover the candle.
FreeAlways(t) == TRUE

\* One signal per candle (live_signals_unique_candle).
Free(t) == signal[t] = "none"

Insert(t, who, paper) ==
    /\ signal' = [signal EXCEPT ![t] = "STRONG_BUY"]
    /\ owner' = [owner EXCEPT ![t] = who]
    /\ exit' = [exit EXCEPT ![t] = 0]
    /\ wanted' = IF paper THEN wanted \cup {t} ELSE wanted
    /\ late' = [late EXCEPT ![t] = Applied]

\* Stop before target before expiry; every signal has a target, a stop and an
\* expiry here.
Closing(t, stamp) ==
    CASE candle[stamp].move = "down" -> "EXITED"
      [] candle[stamp].move = "up" -> "TARGET_HIT"
      [] candle[stamp].move = "flat" /\ stamp >= t + Holding -> "EXPIRED"
      [] OTHER -> "HOLDING"

\* _advance_open_signals: older signals only, each by its own rules.
Touched(stamp) == {t \in Times : signal[t] \in Open /\ stamp > t}

AdvanceOpenSignals(stamp) ==
    /\ signal' = [t \in Times |-> IF t \in Touched(stamp) THEN Closing(t, stamp) ELSE signal[t]]
    /\ exit' = [t \in Times |-> IF t \in Touched(stamp) /\ Closing(t, stamp) # "HOLDING" THEN stamp ELSE exit[t]]

-----------------------------------------------------------------------------
(* The worker's thread.                                                    *)

\* rebuild_histories seeds the history with what has completed by now: those
\* candles are neither applied to the open signals nor evaluated. When the
\* provider fails the history stays empty and the next poll brings them all.
StartWorker ==
    /\ worker = "down"
    /\ worker' = "idle" /\ settings' = deployment
    /\ todo' = <<>>
    /\ \/ latest' = Now /\ passedOver' = passedOver \cup 1 .. Now /\ UNCHANGED faults
       \/ latest' = 0 /\ Fault /\ UNCHANGED passedOver
    /\ UNCHANGED <<candle, deployment, table, delivery, seenMode, heard, lost, wanted, late, changes>>

Range2(from, to) == [i \in 1 .. to - from + 1 |-> from + i - 1]

\* Mutant: of several new candles only the newest is taken.
AppendNewest(from, to) == IF from <= to THEN <<to>> ELSE <<>>

\* CandleHistory.append returns the candles newer than the newest known.
AppendFresh(from, to) == Range2(from, to)

\* poll_once: all new candles enter the history before the first is applied.
Poll ==
    /\ worker = "idle" /\ settings = deployment /\ latest < Now
    /\ worker' = "advance"
    /\ todo' = AppendFresh(latest + 1, Now)
    /\ latest' = Now
    /\ UNCHANGED <<candle, deployment, table, settings, delivery, seenMode, history, bounds>>

Advance ==
    /\ worker = "advance"
    /\ AdvanceOpenSignals(Head(todo))
    /\ worker' = "evaluate"
    /\ UNCHANGED <<candle, deployment, owner, settings, latest, todo, delivery, seenMode, history, bounds>>

\* The next candle of the batch. After the last one the candle listeners get
\* the batch (PaperBroker!CompletedCandle); their errors are logged only.
Onward ==
    /\ todo' = Tail(todo)
    /\ worker' = IF Len(todo) > 1 THEN "advance" ELSE "idle"

\* Decisions are made on the whole history, so only its last candle can bring
\* a signal; a candle that has one already is counted as a duplicate.
Decides == settings.mode # "OFF" /\ settings.source = "OPENDELTA" /\ Head(todo) = latest /\ candle[latest].buy

Evaluate ==
    /\ worker = "evaluate"
    /\ IF Decides /\ Free(latest)
         THEN /\ Insert(latest, "engine", settings.mode = "PAPER")
              /\ IF settings.mode = "PAPER" THEN worker' = "publish" /\ UNCHANGED todo ELSE Onward
         ELSE Onward /\ UNCHANGED <<table, wanted, late>>
    /\ UNCHANGED <<candle, deployment, settings, latest, delivery, seenMode, heard, passedOver, lost, bounds>>

Publish ==
    /\ worker = "publish"
    /\ heard' = [heard EXCEPT ![latest] = @ + 1]
    /\ Onward
    /\ UNCHANGED <<candle, deployment, table, settings, latest, delivery, seenMode, passedOver, lost, wanted, late, bounds>>

\* An error while a candle is applied, evaluated or handed over: the batch is
\* in the history already, so the rest of it is not seen again, and the
\* listeners see none of it.
BatchFails ==
    /\ worker \in AtBatch /\ Fault
    /\ worker' = "idle" /\ todo' = <<>>
    /\ passedOver' = passedOver \cup {todo[i] : i \in DOMAIN todo}
    /\ lost' = IF worker = "publish" THEN lost \cup {latest} ELSE lost
    /\ UNCHANGED <<candle, deployment, table, settings, latest, delivery, seenMode, heard, wanted, late, changes>>

\* reconcile_signal_workers stops a worker whose settings are no longer those
\* of the row; it ends between two polls.
StopWorker ==
    /\ worker = "idle" /\ settings # deployment
    /\ worker' = "down" /\ latest' = 0
    /\ UNCHANGED <<candle, deployment, table, settings, todo, delivery, seenMode, history, bounds>>

\* The process ends: the requests under way end with it.
Crash ==
    /\ Fault
    /\ worker' = "down" /\ latest' = 0 /\ todo' = <<>>
    /\ passedOver' = passedOver \cup {todo[i] : i \in DOMAIN todo}
    /\ lost' = lost \cup (IF worker = "publish" THEN {latest} ELSE {})
                    \cup {AlertCandle[d] : d \in {e \in Deliveries : delivery[e] = "publish"}}
    /\ delivery' = [d \in Deliveries |-> IF delivery[d] \in {"check", "insert", "publish"} THEN "failed" ELSE delivery[d]]
    /\ UNCHANGED <<candle, deployment, table, settings, seenMode, heard, wanted, late, changes>>

ChangeDeployment(row) ==
    /\ changes < MaxChanges /\ changes' = changes + 1
    /\ row # deployment /\ deployment' = row
    /\ UNCHANGED <<candle, table, memory, delivery, seenMode, history, faults>>

-----------------------------------------------------------------------------
(* TradingViewIngestionService.ingest.                                     *)

Answer(d, from, to) ==
    /\ delivery[d] = from
    /\ delivery' = [delivery EXCEPT ![d] = to]

\* Credentials, age, deployment, version, timeframe, watchlist, configuration:
\* an alert that a check refuses is answered at once.  None of them asks for the candle
\* that the alert names: it may come before the provider has it.
ReceiveAlert(d) ==
    /\ Answer(d, "sent", IF deployment.source = "TRADINGVIEW" /\ deployment.mode # "OFF" THEN "check" ELSE "rejected")
    /\ seenMode' = [seenMode EXCEPT ![d] = deployment.mode]
    /\ UNCHANGED <<candle, deployment, table, memory, history, bounds>>

\* get_external_event.
Known(d) == owner[AlertCandle[d]] = Event[d]

CheckEvent(d) ==
    /\ Answer(d, "check", IF Known(d) THEN "duplicate" ELSE "insert")
    /\ UNCHANGED <<candle, deployment, table, memory, seenMode, history, bounds>>

\* insert_new, and the second look when it wrote nothing.
InsertAlert(d) ==
    /\ IF Free(AlertCandle[d])
         THEN /\ Insert(AlertCandle[d], Event[d], seenMode[d] = "PAPER")
              /\ Answer(d, "insert", IF seenMode[d] = "PAPER" THEN "publish" ELSE "accepted")
         ELSE /\ Answer(d, "insert", IF Known(d) THEN "duplicate" ELSE "rejected")
              /\ UNCHANGED <<table, wanted, late>>
    /\ UNCHANGED <<candle, deployment, memory, seenMode, heard, passedOver, lost, bounds>>

PublishAlert(d) ==
    /\ Answer(d, "publish", "accepted")
    /\ heard' = [heard EXCEPT ![AlertCandle[d]] = @ + 1]
    /\ UNCHANGED <<candle, deployment, table, memory, seenMode, passedOver, lost, wanted, late, bounds>>

AlertFails(d) ==
    /\ delivery[d] \in {"check", "insert", "publish"} /\ Fault
    /\ delivery' = [delivery EXCEPT ![d] = "failed"]
    /\ lost' = IF delivery[d] = "publish" THEN lost \cup {AlertCandle[d]} ELSE lost
    /\ UNCHANGED <<candle, deployment, table, memory, seenMode, heard, passedOver, wanted, late, changes>>

-----------------------------------------------------------------------------
WorkerStep == StartWorker \/ Poll \/ Advance \/ Evaluate \/ Publish \/ StopWorker

RequestStep(d) == ReceiveAlert(d) \/ CheckEvent(d) \/ InsertAlert(d) \/ PublishAlert(d)

SignalsNext ==
    \/ \E kind \in Kinds : NewCandle(kind)
    \/ WorkerStep \/ BatchFails \/ Crash
    \/ \E row \in Rows : ChangeDeployment(row)
    \/ \E d \in Deliveries : RequestStep(d) \/ AlertFails(d)

SignalsSpec == SignalsInit /\ [][SignalsNext]_vars

-----------------------------------------------------------------------------
(* Properties.                                                             *)

\* Requests that are about to hand a signal to the broker.
OnTheWay(t) ==
    \/ worker = "publish" /\ latest = t
    \/ \E d \in Deliveries : delivery[d] = "publish" /\ AlertCandle[d] = t

\* A signal stored for a paper deployment reaches the broker exactly once,
\* however often and however concurrently its alert is delivered and whether
\* the strategy finds the same candle; the one way it never does is an error or
\* the end of the process between the insert and the hand-over, after which a
\* repeated alert is answered as a duplicate.
HeardExactlyOnce ==
    \A t \in Times :
        /\ heard[t] <= 1
        /\ heard[t] = 1 => t \in wanted
        /\ t \in wanted => heard[t] = 1 \/ OnTheWay(t) \/ t \in lost

\* No exit is missed: a signal is still open after a candle that would have
\* closed it only when that candle had been applied before the signal was
\* stored, was seeded by a restart, or was in a batch that failed.
NoMissedExit ==
    \A t \in Times : signal[t] \in Open =>
        \A stamp \in t + 1 .. Applied :
            Closing(t, stamp) # "HOLDING" => stamp <= late[t] \/ stamp \in passedOver
=============================================================================
