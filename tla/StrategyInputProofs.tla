------------------------ MODULE StrategyInputProofs -------------------------
(***************************************************************************)
(* What turns market data into decisions: proofs for any number of         *)
(* candles, deliveries, rows and bars. The components share no state; each *)
(* has a section with its inductive invariant and its theorem.             *)
(***************************************************************************)
EXTENDS LiveSignals, CryptoPullback, OiRegime, OiFilter, ResearchPlan, SumsAndExtrema
-----------------------------------------------------------------------------
(* Live signals.                                                           *)

\* The batch the engine has left ends with the newest candle of the history.
BatchIsRecent ==
    /\ worker \in AtBatch => /\ todo \in Seq(Times) /\ Len(todo) \in 1 .. latest
                             /\ \A i \in 1 .. Len(todo) : todo[i] = latest - Len(todo) + i
    /\ worker = "publish" => Len(todo) = 1

SignalTypes ==
    /\ candle \in Seq(Kinds) /\ Len(candle) <= MaxTime
    /\ worker \in {"down", "idle"} \cup AtBatch
    /\ latest \in 0 .. Len(candle)
    /\ signal \in [Times -> {"none", "EXITED", "TARGET_HIT", "EXPIRED"} \cup Open]
    /\ heard \in [Times -> Nat] /\ late \in [Times -> 0 .. MaxTime]
    /\ DOMAIN owner = Times /\ DOMAIN exit = Times
    /\ DOMAIN delivery = Deliveries /\ DOMAIN seenMode = Deliveries
    /\ BatchIsRecent

\* A signal that somebody is about to hand over has been stored, not handed over yet, and is in one hand only.
OneHand ==
    /\ \A t \in Times : heard[t] = 0 \/ (heard[t] = 1 /\ t \in wanted)
    /\ \A t \in Times : t \in wanted => signal[t] # "none"
    /\ worker = "publish" => latest \in wanted /\ heard[latest] = 0
    /\ \A d \in Deliveries : delivery[d] = "publish" =>
         /\ AlertCandle[d] \in wanted /\ heard[AlertCandle[d]] = 0
         /\ ~ (worker = "publish" /\ latest = AlertCandle[d])
         /\ \A e \in Deliveries : delivery[e] = "publish" /\ AlertCandle[e] = AlertCandle[d] => e = d

SignalInv == SignalTypes /\ OneHand /\ HeardExactlyOnce /\ NoMissedExit

\* The candle the engine is at, counted from the newest of the history.
LEMMA AppliedIs ==
  ASSUME SignalTypes
  PROVE  /\ Applied = IF worker \in AtBatch
                        THEN IF worker = "advance" THEN latest - Len(todo) ELSE latest - Len(todo) + 1
                        ELSE latest
         /\ Applied \in 0 .. Len(candle) /\ Len(candle) \in Nat /\ MaxTime \in Nat
         /\ worker \in AtBatch => /\ todo # <<>> /\ Head(todo) = latest - Len(todo) + 1 /\ Head(todo) \in Times
                                  /\ latest \in Times
<1>1. Len(candle) \in Nat /\ MaxTime \in Nat /\ latest \in 0 .. Len(candle) /\ latest \in 0 .. MaxTime
  BY SignalBounds DEF SignalTypes
<1>2. ASSUME worker \in AtBatch
      PROVE  /\ todo # <<>> /\ Head(todo) = latest - Len(todo) + 1 /\ Head(todo) \in Times /\ Len(todo) \in 1 .. latest
  <2>1. todo \in Seq(Times) /\ Len(todo) \in 1 .. latest /\ todo[1] = latest - Len(todo) + 1
    BY <1>1, <1>2 DEF SignalTypes, BatchIsRecent
  <2> QED BY <1>1, <2>1
<1> QED BY <1>1, <1>2 DEF Applied, Times

\* A batch of the candles after the newest known one.
LEMMA FreshBatch ==
  ASSUME NEW from \in 1 .. MaxTime, NEW to \in from .. MaxTime
  PROVE  /\ AppendFresh(from, to) \in Seq(Times) /\ Len(AppendFresh(from, to)) = to - from + 1
         /\ \A i \in 1 .. Len(AppendFresh(from, to)) : AppendFresh(from, to)[i] = from + i - 1
<1>1. MaxTime \in Nat /\ to - from + 1 \in Nat BY SignalBounds
<1>2. \A i \in 1 .. to - from + 1 : from + i - 1 \in Times BY <1>1 DEF Times
<1> QED BY <1>1, <1>2 DEF AppendFresh, Range2

\* The engine goes on to the next candle of its batch, if it has one.
LEMMA BatchGoesOn ==
  ASSUME SignalTypes, worker \in AtBatch, Onward, UNCHANGED <<latest, candle>>
  PROVE  /\ BatchIsRecent' /\ worker' \in {"advance", "idle"}
         /\ worker # "advance" => Applied' = Applied
<1>1. /\ Len(todo) \in Nat \ {0} /\ todo \in Seq(Times) /\ latest \in Nat /\ Len(todo) <= latest
      /\ \A i \in 1 .. Len(todo) : todo[i] = latest - Len(todo) + i
  BY AppliedIs DEF SignalTypes, BatchIsRecent
<1>2. /\ Tail(todo) \in Seq(Times) /\ Len(Tail(todo)) = Len(todo) - 1
      /\ \A i \in 1 .. Len(Tail(todo)) : Tail(todo)[i] = todo[i + 1]
  BY <1>1
<1>3. todo' = Tail(todo) /\ worker' = IF Len(todo) > 1 THEN "advance" ELSE "idle" BY DEF Onward
<1>4. BatchIsRecent' BY <1>1, <1>2, <1>3 DEF BatchIsRecent, AtBatch
<1>5. worker' = "advance" => Head(todo') = latest - Len(todo) + 2 BY <1>1, <1>2, <1>3
<1>6. Applied = IF worker = "advance" THEN latest - Len(todo) ELSE latest - Len(todo) + 1 BY AppliedIs
<1>7. Applied' = IF worker' = "advance" THEN Head(todo') - 1 ELSE latest BY <1>3 DEF Applied, AtBatch
<1> QED BY <1>1, <1>3, <1>4, <1>5, <1>6, <1>7

LEMMA SignalsInitTypes == SignalsInit => SignalTypes
  BY SignalBounds DEF SignalsInit, SignalTypes, BatchIsRecent, AtBatch, Times, Open


LEMMA SignalTypesStep == SignalTypes /\ [SignalsNext]_vars => SignalTypes'
<1> SUFFICES ASSUME SignalTypes, [SignalsNext]_vars PROVE SignalTypes' OBVIOUS
<1>0. /\ Len(candle) \in Nat /\ MaxTime \in Nat /\ latest \in 0 .. MaxTime
      /\ worker \in AtBatch => latest \in Times /\ Head(todo) \in Times
      /\ Applied \in 0 .. MaxTime
  BY AppliedIs DEF SignalTypes
<1>1. CASE UNCHANGED vars BY <1>1 DEF vars, table, memory, history, SignalTypes, BatchIsRecent
<1>2. CASE \E kind \in Kinds : NewCandle(kind)
  <2>1. candle' \in Seq(Kinds) /\ Len(candle') = Len(candle) + 1 /\ Len(candle') <= MaxTime
    BY <1>0, <1>2 DEF NewCandle, SignalTypes, Now
  <2>2. latest \in 0 .. Len(candle') /\ UNCHANGED <<worker, todo, latest, table, delivery, seenMode, history>>
    BY <1>0, <1>2, <2>1 DEF NewCandle, memory, SignalTypes
  <2> QED BY <2>1, <2>2 DEF table, history, SignalTypes, BatchIsRecent
<1>3. CASE StartWorker
  BY <1>0, <1>3 DEF StartWorker, table, SignalTypes, BatchIsRecent, AtBatch, Now
<1>4. CASE Poll
  <2>1. latest + 1 \in 1 .. MaxTime /\ Len(candle) \in latest + 1 .. MaxTime BY <1>0, <1>4 DEF Poll, Now, SignalTypes
  <2>2. /\ todo' \in Seq(Times) /\ Len(todo') = Len(candle) - latest /\ latest' = Len(candle)
        /\ \A i \in 1 .. Len(todo') : todo'[i] = latest + i
    <3>1. todo' = AppendFresh(latest + 1, Len(candle)) /\ latest' = Len(candle) BY <1>4 DEF Poll, Now
    <3>2. /\ todo' \in Seq(Times) /\ Len(todo') = Len(candle) - (latest + 1) + 1
          /\ \A i \in 1 .. Len(todo') : todo'[i] = latest + 1 + i - 1
      BY <2>1, <3>1, FreshBatch
    <3> QED BY <1>0, <3>1, <3>2
  <2>3. worker' = "advance" /\ UNCHANGED <<candle, table, delivery, seenMode, history>> BY <1>4 DEF Poll
  <2>4. BatchIsRecent' BY <1>0, <2>1, <2>2, <2>3 DEF BatchIsRecent
  <2> QED BY <1>0, <2>2, <2>3, <2>4 DEF SignalTypes, table, history, AtBatch
<1>5. CASE Advance
  <2>1. signal' \in [Times -> {"none", "EXITED", "TARGET_HIT", "EXPIRED"} \cup Open]
    BY <1>5 DEF Advance, AdvanceOpenSignals, Closing, SignalTypes, Open
  <2>2. DOMAIN exit' = Times BY <1>5 DEF Advance, AdvanceOpenSignals
  <2> QED BY <1>5, <2>1, <2>2 DEF Advance, SignalTypes, BatchIsRecent, AtBatch, history
<1>6. CASE Evaluate
  <2>1. UNCHANGED <<candle, latest, delivery, seenMode, heard>> /\ worker = "evaluate" BY <1>6 DEF Evaluate
  <2>2. /\ signal' \in [Times -> {"none", "EXITED", "TARGET_HIT", "EXPIRED"} \cup Open]
        /\ late' \in [Times -> 0 .. MaxTime] /\ DOMAIN owner' = Times /\ DOMAIN exit' = Times
    BY <1>0, <1>6 DEF Evaluate, Insert, SignalTypes, Open, table
  <2>3. CASE Onward BY <2>1, <2>2, <2>3, BatchGoesOn DEF SignalTypes, AtBatch
  <2>4. CASE Decides /\ worker' = "publish" /\ UNCHANGED todo
    <3>0. worker \in AtBatch BY <2>1 DEF AtBatch
    <3>1. Head(todo) = latest - Len(todo) + 1 /\ todo \in Seq(Times) BY <3>0, AppliedIs DEF SignalTypes, BatchIsRecent
    <3>2. Len(todo) \in Nat /\ latest = latest - Len(todo) + 1 BY <2>4, <3>1 DEF Decides
    <3>3. Len(todo) = 1
      <4>1. \A n \in Nat, m \in Nat : m = m - n + 1 => n = 1 OBVIOUS
      <4>2. latest \in Nat BY <1>0
      <4> QED BY <3>2, <4>1, <4>2
    <3> QED BY <2>1, <2>2, <2>4, <3>3 DEF SignalTypes, BatchIsRecent, AtBatch
  <2> QED BY <1>6, <2>3, <2>4 DEF Evaluate
<1>7. CASE Publish
  <2>1. worker = "publish" /\ Onward /\ UNCHANGED <<candle, table, latest, delivery, seenMode, late>> BY <1>7 DEF Publish
  <2>2. latest \in Times /\ heard \in [Times -> Nat] BY <1>0, <2>1 DEF AtBatch, SignalTypes
  <2>3. heard' \in [Times -> Nat] BY <1>7, <2>2 DEF Publish
  <2> QED BY <2>1, <2>3, BatchGoesOn DEF SignalTypes, table, AtBatch
<1>8. CASE BatchFails BY <1>0, <1>8 DEF BatchFails, table, SignalTypes, BatchIsRecent, AtBatch
<1>9. CASE StopWorker BY <1>0, <1>9 DEF StopWorker, table, history, SignalTypes, BatchIsRecent, AtBatch
<1>10. CASE Crash BY <1>0, <1>10 DEF Crash, table, SignalTypes, BatchIsRecent, AtBatch
<1>11. CASE \E row \in Rows : ChangeDeployment(row)
  BY <1>11 DEF ChangeDeployment, table, memory, history, SignalTypes, BatchIsRecent
<1>12. ASSUME NEW d \in Deliveries, RequestStep(d) \/ AlertFails(d) PROVE SignalTypes'
  <2>1. UNCHANGED <<candle, worker, latest, todo>>
    BY <1>12 DEF RequestStep, AlertFails, ReceiveAlert, CheckEvent, InsertAlert, PublishAlert, memory
  <2>2. DOMAIN delivery' = Deliveries /\ DOMAIN seenMode' = Deliveries
    BY <1>12 DEF RequestStep, AlertFails, ReceiveAlert, CheckEvent, InsertAlert, PublishAlert, Answer, SignalTypes
  <2>0. AlertCandle[d] \in Times /\ heard \in [Times -> Nat] BY AlertsNameCandles DEF Times, SignalTypes
  <2>3. heard' \in [Times -> Nat]
    BY <1>12, <2>0 DEF RequestStep, AlertFails, ReceiveAlert, CheckEvent, InsertAlert, PublishAlert, history
  <2>4. /\ signal' \in [Times -> {"none", "EXITED", "TARGET_HIT", "EXPIRED"} \cup Open]
        /\ late' \in [Times -> 0 .. MaxTime] /\ DOMAIN owner' = Times /\ DOMAIN exit' = Times
    <3>1. CASE InsertAlert(d) BY <1>0, <3>1 DEF InsertAlert, Insert, SignalTypes, Open, table
    <3>2. CASE ~ InsertAlert(d)
      BY <1>12, <3>2 DEF RequestStep, AlertFails, ReceiveAlert, CheckEvent, PublishAlert, table, history, SignalTypes
    <3> QED BY <3>1, <3>2
  <2>5. BatchIsRecent' BY <2>1 DEF SignalTypes, BatchIsRecent
  <2> QED BY <2>1, <2>2, <2>3, <2>4, <2>5 DEF SignalTypes
<1> QED BY <1>1, <1>2, <1>3, <1>4, <1>5, <1>6, <1>7, <1>8, <1>9, <1>10, <1>11, <1>12 DEF SignalsNext, WorkerStep

\* A step that takes no signal in hand and hands none over.
LEMMA SameHands ==
  ASSUME OneHand, HeardExactlyOnce, UNCHANGED <<heard, wanted>>, lost \subseteq lost',
         \A t \in Times : signal[t] # "none" => signal'[t] # "none",
         \A d \in Deliveries : delivery'[d] = "publish" <=> delivery[d] = "publish",
         worker' = "publish" <=> worker = "publish", worker = "publish" => latest' = latest
  PROVE  OneHand' /\ HeardExactlyOnce'
<1>1. OneHand' BY DEF OneHand
<1>2. \A t \in Times : OnTheWay(t)' <=> OnTheWay(t) BY DEF OnTheWay
<1>3. HeardExactlyOnce' BY <1>2 DEF HeardExactlyOnce
<1> QED BY <1>1, <1>3

\* A signal that is stored for the broker was not there before, so nobody else has it in hand.
LEMMA Stored ==
  ASSUME SignalTypes, OneHand, NEW t \in Times, Free(t)
  PROVE  /\ t \notin wanted /\ heard[t] = 0
         /\ worker = "publish" => latest # t
         /\ \A d \in Deliveries : delivery[d] = "publish" => AlertCandle[d] # t
  BY DEF SignalTypes, OneHand, Free

\* The engine stores a signal, hands it over, or breaks off.
LEMMA EngineHands ==
  ASSUME SignalTypes, OneHand, HeardExactlyOnce, Evaluate \/ Publish \/ BatchFails \/ Crash
  PROVE  OneHand' /\ HeardExactlyOnce'
<1>0. /\ worker \in AtBatch => latest \in Times
      /\ heard \in [Times -> Nat] /\ signal \in [Times -> {"none", "EXITED", "TARGET_HIT", "EXPIRED"} \cup Open]
      /\ DOMAIN delivery = Deliveries
  BY AppliedIs DEF SignalTypes
<1>1. CASE Evaluate
  <2>0. /\ worker = "evaluate" /\ UNCHANGED <<latest, delivery, heard, lost>> /\ latest \in Times
    BY <1>0, <1>1 DEF Evaluate, AtBatch
  <2>1. \A t \in Times : signal[t] # "none" => signal'[t] # "none"
    BY <1>0, <1>1, <2>0 DEF Evaluate, Insert, Free, table
  <2>2. CASE worker' # "publish"
    <3>1. wanted' = wanted BY <1>1, <2>2 DEF Evaluate, Insert
    <3> QED BY <2>0, <2>1, <2>2, <3>1, SameHands
  <2>3. CASE worker' = "publish"
    <3>1. Free(latest) /\ wanted' = wanted \cup {latest} /\ signal'[latest] # "none"
      BY <1>0, <1>1, <2>0, <2>3 DEF Evaluate, Insert, Onward
    <3>2. /\ latest \notin wanted /\ heard[latest] = 0
          /\ \A d \in Deliveries : delivery[d] = "publish" => AlertCandle[d] # latest
      BY <2>0, <3>1, Stored
    <3>3. OneHand' BY <2>0, <2>1, <2>3, <3>1, <3>2 DEF OneHand
    <3>4. \A t \in Times : OnTheWay(t)' <=> OnTheWay(t) \/ t = latest BY <2>0, <2>3 DEF OnTheWay
    <3> QED BY <2>0, <3>1, <3>2, <3>3, <3>4 DEF HeardExactlyOnce
  <2> QED BY <2>2, <2>3
<1>2. CASE Publish
  <2>0. /\ worker = "publish" /\ worker' \in {"advance", "idle"} /\ latest \in Times
        /\ UNCHANGED <<signal, latest, delivery, lost, wanted>>
    BY <1>0, <1>2 DEF Publish, Onward, table, AtBatch
  <2>1. \A t \in Times : heard'[t] = IF t = latest THEN heard[t] + 1 ELSE heard[t]
    BY <1>0, <1>2, <2>0 DEF Publish
  <2>2. heard[latest] = 0 /\ latest \in wanted BY <2>0 DEF OneHand
  <2>3. OneHand' BY <2>0, <2>1, <2>2, AlertsNameCandles DEF OneHand, Times
  <2>4. \A t \in Times : OnTheWay(t) => OnTheWay(t)' \/ t = latest BY <2>0 DEF OnTheWay
  <2> QED BY <1>0, <2>0, <2>1, <2>2, <2>3, <2>4 DEF HeardExactlyOnce
<1>3. CASE BatchFails \/ Crash
  <2>1. /\ UNCHANGED <<signal, heard, wanted>> /\ worker' # "publish"
        /\ \A d \in Deliveries : delivery'[d] = "publish" => delivery[d] = "publish"
    BY <1>0, <1>3 DEF BatchFails, Crash, table
  <2>2. /\ lost \subseteq lost' /\ (worker = "publish" => latest \in lost')
        /\ \A d \in Deliveries : delivery[d] = "publish" /\ delivery'[d] # "publish" => AlertCandle[d] \in lost'
    BY <1>3 DEF BatchFails, Crash
  <2>3. OneHand' BY <2>1 DEF OneHand
  <2>4. \A t \in Times : OnTheWay(t) => OnTheWay(t)' \/ t \in lost' BY <2>1, <2>2 DEF OnTheWay
  <2> QED BY <2>1, <2>2, <2>3, <2>4 DEF HeardExactlyOnce
<1> QED BY <1>1, <1>2, <1>3

\* A request stores a signal, hands it over, or breaks off.
LEMMA RequestHands ==
  ASSUME SignalTypes, OneHand, HeardExactlyOnce, NEW d \in Deliveries, RequestStep(d) \/ AlertFails(d)
  PROVE  OneHand' /\ HeardExactlyOnce'
<1>0. /\ heard \in [Times -> Nat] /\ signal \in [Times -> {"none", "EXITED", "TARGET_HIT", "EXPIRED"} \cup Open]
      /\ DOMAIN delivery = Deliveries /\ AlertCandle[d] \in Times
      /\ \A e \in Deliveries : AlertCandle[e] \in Times
  BY AlertsNameCandles DEF SignalTypes, Times
<1>1. /\ UNCHANGED <<worker, latest>>
      /\ \A e \in Deliveries : e # d => delivery'[e] = delivery[e]
  BY <1>0 DEF RequestStep, AlertFails, ReceiveAlert, CheckEvent, InsertAlert, PublishAlert, memory, Answer
<1>2. CASE ReceiveAlert(d) \/ CheckEvent(d)
  <2>1. delivery[d] # "publish" /\ delivery'[d] # "publish" /\ UNCHANGED <<signal, heard, wanted, lost>>
    BY <1>0, <1>2 DEF ReceiveAlert, CheckEvent, Answer, table, history
  <2> QED BY <1>1, <2>1, SameHands
<1>3. CASE InsertAlert(d)
  <2>0. delivery[d] = "insert" /\ UNCHANGED <<heard, lost>> BY <1>3 DEF InsertAlert, Answer
  <2>1. \A t \in Times : signal[t] # "none" => signal'[t] # "none"
    BY <1>0, <1>3 DEF InsertAlert, Insert, Free, table
  <2>2. CASE delivery'[d] # "publish"
    <3>1. wanted' = wanted BY <1>0, <1>3, <2>2 DEF InsertAlert, Insert, Answer
    <3> QED BY <1>1, <2>0, <2>1, <2>2, <3>1, SameHands
  <2>3. CASE delivery'[d] = "publish"
    <3> DEFINE t == AlertCandle[d]
    <3>1. Free(t) /\ wanted' = wanted \cup {t} /\ signal'[t] # "none"
      BY <1>0, <1>3, <2>3 DEF InsertAlert, Insert, Answer
    <3>2. /\ t \notin wanted /\ heard[t] = 0 /\ (worker = "publish" => latest # t)
          /\ \A e \in Deliveries : delivery[e] = "publish" => AlertCandle[e] # t
      BY <1>0, <3>1, Stored
    <3>3. OneHand' BY <1>0, <1>1, <2>0, <2>1, <2>3, <3>1, <3>2 DEF OneHand
    <3>4. \A s \in Times : OnTheWay(s) => OnTheWay(s)' BY <1>1, <2>0 DEF OnTheWay
    <3>5. OnTheWay(t)' BY <1>0, <2>3 DEF OnTheWay
    <3> QED BY <2>0, <3>1, <3>2, <3>3, <3>4, <3>5 DEF HeardExactlyOnce
  <2> QED BY <2>2, <2>3
<1>4. CASE PublishAlert(d)
  <2> DEFINE t == AlertCandle[d]
  <2>0. /\ delivery[d] = "publish" /\ delivery'[d] = "accepted" /\ UNCHANGED <<signal, lost, wanted>>
    BY <1>0, <1>4 DEF PublishAlert, Answer, table
  <2>1. \A s \in Times : heard'[s] = IF s = t THEN heard[s] + 1 ELSE heard[s] BY <1>0, <1>4 DEF PublishAlert
  <2>2. heard[t] = 0 /\ t \in wanted BY <2>0 DEF OneHand
  <2>3. worker' = "publish" => latest' # t BY <1>1, <2>0 DEF OneHand
  <2>4. \A e \in Deliveries : delivery'[e] = "publish" => delivery[e] = "publish" /\ AlertCandle[e] # t
    BY <1>1, <2>0 DEF OneHand
  <2>5. OneHand'
    <3>1. \A s \in Times : heard'[s] = 0 \/ (heard'[s] = 1 /\ s \in wanted') BY <2>0, <2>1, <2>2 DEF OneHand
    <3>2. worker' = "publish" => latest' \in wanted' /\ heard'[latest'] = 0
      BY <1>0, <1>1, <2>0, <2>1, <2>3, AppliedIs DEF OneHand, AtBatch
    <3> QED BY <1>0, <1>1, <2>0, <2>1, <2>4, <3>1, <3>2 DEF OneHand
  <2>6. \A s \in Times : OnTheWay(s) => OnTheWay(s)' \/ s = t BY <1>1, <2>0 DEF OnTheWay
  <2> QED BY <1>0, <2>0, <2>1, <2>2, <2>5, <2>6 DEF HeardExactlyOnce
<1>5. CASE AlertFails(d)
  <2>1. /\ UNCHANGED <<signal, heard, wanted>> /\ delivery'[d] # "publish" /\ lost \subseteq lost'
        /\ (delivery[d] = "publish" => AlertCandle[d] \in lost')
    BY <1>0, <1>5 DEF AlertFails, table
  <2>2. OneHand' BY <1>1, <2>1 DEF OneHand
  <2>3. \A s \in Times : OnTheWay(s) => OnTheWay(s)' \/ s \in lost' BY <1>1, <2>1 DEF OnTheWay
  <2> QED BY <2>1, <2>2, <2>3 DEF HeardExactlyOnce
<1> QED BY <1>2, <1>3, <1>4, <1>5 DEF RequestStep

LEMMA HandsStep == SignalTypes /\ OneHand /\ HeardExactlyOnce /\ [SignalsNext]_vars => OneHand' /\ HeardExactlyOnce'
<1> SUFFICES ASSUME SignalTypes, OneHand, HeardExactlyOnce, [SignalsNext]_vars PROVE OneHand' /\ HeardExactlyOnce'
  OBVIOUS
<1>1. CASE \/ UNCHANGED vars \/ \E kind \in Kinds : NewCandle(kind)
           \/ StartWorker \/ Poll \/ StopWorker \/ \E row \in Rows : ChangeDeployment(row)
  <2>1. /\ UNCHANGED <<signal, heard, wanted, lost, delivery>> /\ (worker' = "publish" <=> worker = "publish")
        /\ worker = "publish" => latest' = latest
    BY <1>1 DEF vars, NewCandle, StartWorker, Poll, StopWorker, ChangeDeployment, table, memory, history
  <2> QED BY <2>1, SameHands
<1>2. CASE Advance
  <2>1. /\ UNCHANGED <<heard, wanted, lost, delivery, latest>> /\ worker = "advance" /\ worker' = "evaluate"
        /\ \A t \in Times : signal[t] # "none" => signal'[t] # "none"
    BY <1>2 DEF Advance, AdvanceOpenSignals, Closing, history
  <2> QED BY <2>1, SameHands
<1>3. CASE Evaluate \/ Publish \/ BatchFails \/ Crash BY <1>3, EngineHands
<1>4. CASE \E d \in Deliveries : RequestStep(d) \/ AlertFails(d) BY <1>4, RequestHands
<1> QED BY <1>1, <1>2, <1>3, <1>4 DEF SignalsNext, WorkerStep

\* A step that opens no signal, applies no candle and forgets none.
LEMMA SameExits ==
  ASSUME SignalTypes, NoMissedExit, Applied' \in Int, Applied' <= Applied,
         passedOver \subseteq passedOver', UNCHANGED late,
         \A stamp \in 1 .. Len(candle) : candle'[stamp] = candle[stamp],
         \A t \in Times : signal'[t] \in Open => signal[t] \in Open
  PROVE  NoMissedExit'
<1> SUFFICES ASSUME NEW t \in Times, signal'[t] \in Open, NEW stamp \in t + 1 .. Applied', Closing(t, stamp)' # "HOLDING"
             PROVE  stamp <= late[t] \/ stamp \in passedOver
  BY DEF NoMissedExit
<1>1. t \in Nat \ {0} /\ Applied \in 0 .. Len(candle) /\ Len(candle) \in Nat /\ MaxTime \in Nat
  BY AppliedIs DEF Times
<1>2. stamp \in t + 1 .. Applied /\ stamp \in 1 .. Len(candle) BY <1>1
<1>3. Closing(t, stamp)' = Closing(t, stamp) BY <1>2 DEF Closing
<1> QED BY <1>2, <1>3 DEF NoMissedExit

\* The signal that is stored now can close only on candles that come later.
LEMMA StoredExits ==
  ASSUME SignalTypes, NoMissedExit, NEW s \in Times, NEW who, NEW paper, Insert(s, who, paper),
         Applied' = Applied, UNCHANGED <<candle, passedOver>>
  PROVE  NoMissedExit'
<1> SUFFICES ASSUME NEW t \in Times, signal'[t] \in Open, NEW stamp \in t + 1 .. Applied, Closing(t, stamp)' # "HOLDING"
             PROVE  stamp <= late'[t] \/ stamp \in passedOver
  BY DEF NoMissedExit
<1>1. Applied \in Nat /\ t \in Nat BY AppliedIs, SignalBounds DEF Times
<1>2. CASE t = s BY <1>1, <1>2 DEF Insert, SignalTypes
<1>3. CASE t # s
  <2>1. signal'[t] = signal[t] /\ late'[t] = late[t] BY <1>3 DEF Insert, SignalTypes
  <2>2. Closing(t, stamp)' = Closing(t, stamp) BY DEF Closing
  <2> QED BY <2>1, <2>2 DEF NoMissedExit
<1> QED BY <1>2, <1>3

\* The candle the engine applies closes every older signal that it should.
LEMMA AdvanceExits == ASSUME SignalTypes, NoMissedExit, Advance PROVE NoMissedExit'
<1> SUFFICES ASSUME NEW t \in Times, signal'[t] \in Open, NEW stamp \in t + 1 .. Applied', Closing(t, stamp)' # "HOLDING"
             PROVE  stamp <= late[t] \/ stamp \in passedOver
  BY DEF NoMissedExit, Advance, history
<1>0. /\ worker = "advance" /\ worker' = "evaluate" /\ AdvanceOpenSignals(Head(todo))
      /\ UNCHANGED <<candle, latest, todo, late, passedOver>>
  BY DEF Advance, history
<1>1. Head(todo) \in Times /\ Applied = Head(todo) - 1 /\ Applied' = Head(todo)
  BY <1>0, AppliedIs DEF Applied, AtBatch
<1>2. Closing(t, stamp)' = Closing(t, stamp) BY <1>0 DEF Closing
<1>3. t \in Nat /\ Head(todo) \in Nat BY <1>1, SignalBounds DEF Times
<1>4. ~ (t \in Touched(Head(todo)) /\ Closing(t, Head(todo)) # "HOLDING")
  BY <1>0 DEF AdvanceOpenSignals, Closing, Open
<1>5. signal[t] \in Open BY <1>0 DEF AdvanceOpenSignals, Touched
<1>6. stamp # Head(todo) BY <1>2, <1>3, <1>4, <1>5 DEF Touched
<1>7. stamp \in t + 1 .. Applied BY <1>1, <1>3, <1>6
<1> QED BY <1>2, <1>5, <1>7 DEF NoMissedExit

\* The candles that a batch which fails had left are counted as passed over.
LEMMA FailedBatchExits == ASSUME SignalTypes, NoMissedExit, BatchFails PROVE NoMissedExit'
<1> SUFFICES ASSUME NEW t \in Times, signal'[t] \in Open, NEW stamp \in t + 1 .. Applied', Closing(t, stamp)' # "HOLDING"
             PROVE  stamp <= late[t] \/ stamp \in passedOver'
  BY DEF NoMissedExit, BatchFails
<1>0. /\ worker \in AtBatch /\ worker' = "idle" /\ UNCHANGED <<signal, candle, latest, late>>
      /\ passedOver' = passedOver \cup {todo[i] : i \in DOMAIN todo}
  BY DEF BatchFails, table
<1>1. /\ Applied' = latest /\ Applied \in Nat /\ latest \in Nat /\ t \in Nat /\ Len(todo) \in Nat
      /\ latest - Len(todo) <= Applied
  <2>1. Len(todo) \in 1 .. latest /\ latest \in Nat /\ t \in Nat
    BY <1>0, AppliedIs, SignalBounds DEF SignalTypes, BatchIsRecent, Times
  <2>2. Applied = latest - Len(todo) \/ Applied = latest - Len(todo) + 1 BY <1>0, AppliedIs
  <2>3. Applied' = latest BY <1>0 DEF Applied, AtBatch
  <2> QED BY <2>1, <2>2, <2>3
<1>2. CASE stamp <= Applied
  <2>1. Closing(t, stamp)' = Closing(t, stamp) /\ stamp \in t + 1 .. Applied BY <1>0, <1>1, <1>2 DEF Closing
  <2> QED BY <1>0, <2>1 DEF NoMissedExit
<1>3. CASE stamp > Applied
  <2>1. stamp - (latest - Len(todo)) \in 1 .. Len(todo) BY <1>1, <1>3
  <2>2. todo[stamp - (latest - Len(todo))] = stamp
    <3> DEFINE i == stamp - (latest - Len(todo))
    <3>1. \A j \in 1 .. Len(todo) : todo[j] = latest - Len(todo) + j BY <1>0 DEF SignalTypes, BatchIsRecent
    <3>2. stamp \in Int /\ latest - Len(todo) + i = stamp BY <1>1
    <3>3. i \in 1 .. Len(todo) BY <2>1
    <3> HIDE DEF i
    <3>4. todo[i] = stamp BY <3>1, <3>2, <3>3
    <3> QED BY <3>4 DEF i
  <2>3. DOMAIN todo = 1 .. Len(todo) BY <1>0 DEF SignalTypes, BatchIsRecent
  <2> QED BY <1>0, <2>1, <2>2, <2>3
<1> QED BY <1>1, <1>2, <1>3

LEMMA ExitsStep == SignalTypes /\ NoMissedExit /\ [SignalsNext]_vars => NoMissedExit'
<1> SUFFICES ASSUME SignalTypes, NoMissedExit, [SignalsNext]_vars PROVE NoMissedExit' OBVIOUS
<1>0. /\ Applied \in 0 .. Len(candle) /\ Len(candle) \in Nat /\ candle \in Seq(Kinds) /\ latest \in 0 .. Len(candle)
      /\ worker \in AtBatch => latest \in Times
  BY AppliedIs DEF SignalTypes
<1>1. CASE UNCHANGED vars \/ \E row \in Rows : ChangeDeployment(row)
  <2>1. UNCHANGED <<candle, signal, late, passedOver, worker, latest, todo>>
    BY <1>1 DEF vars, ChangeDeployment, table, memory, history
  <2>2. Applied' = Applied BY <2>1 DEF Applied
  <2> QED BY <1>0, <2>1, <2>2, SameExits
<1>2. CASE \E kind \in Kinds : NewCandle(kind)
  <2>1. UNCHANGED <<signal, late, passedOver, worker, latest, todo>> BY <1>2 DEF NewCandle, table, memory, history
  <2>2. \A stamp \in 1 .. Len(candle) : candle'[stamp] = candle[stamp] BY <1>0, <1>2 DEF NewCandle
  <2>3. Applied' = Applied BY <2>1 DEF Applied
  <2> QED BY <1>0, <2>1, <2>2, <2>3, SameExits
<1>3. CASE StartWorker
  <2>1. UNCHANGED <<candle, signal, late>> /\ worker' = "idle" BY <1>3 DEF StartWorker, table
  <2>2. Applied' = latest' BY <2>1 DEF Applied, AtBatch
  <2>3. CASE latest' = 0 BY <1>0, <1>3, <2>1, <2>2, <2>3, SameExits DEF StartWorker
  <2>4. CASE latest' = Now /\ passedOver' = passedOver \cup 1 .. Now
    <3> SUFFICES ASSUME NEW t \in Times, NEW stamp \in t + 1 .. Now PROVE stamp \in passedOver'
      BY <2>2, <2>4 DEF NoMissedExit
    <3> QED BY <1>0, <2>4, SignalBounds DEF Now, Times
  <2> QED BY <1>3, <2>3, <2>4 DEF StartWorker
<1>4. CASE Poll
  <2>1. UNCHANGED <<candle, signal, late, passedOver>> /\ worker = "idle" /\ worker' = "advance"
    BY <1>4 DEF Poll, table, history
  <2>2. Applied = latest /\ Applied' = Head(todo') - 1 BY <2>1 DEF Applied, AtBatch
  <2>3. latest + 1 \in 1 .. MaxTime /\ Len(candle) \in latest + 1 .. MaxTime
    BY <1>0, <1>4, SignalBounds DEF Poll, Now, SignalTypes
  <2>4. todo' \in Seq(Times) /\ Len(todo') = Len(candle) - (latest + 1) + 1 /\ \A i \in 1 .. Len(todo') : todo'[i] = latest + 1 + i - 1
    BY <1>4, <2>3, FreshBatch DEF Poll, Now
  <2>5. Head(todo') = latest + 1 BY <1>0, <2>3, <2>4
  <2> QED BY <1>0, <2>1, <2>2, <2>5, SameExits
<1>5. CASE Advance BY <1>5, AdvanceExits
<1>6. CASE Evaluate
  <2>0. worker = "evaluate" /\ UNCHANGED <<candle, latest, passedOver>> /\ latest \in Times
    BY <1>0, <1>6 DEF Evaluate, AtBatch
  <2>1. Applied' = Applied
    <3>1. CASE Onward BY <2>0, <3>1, BatchGoesOn DEF AtBatch
    <3>2. CASE worker' = "publish" /\ UNCHANGED todo BY <2>0, <3>2 DEF Applied, AtBatch
    <3> QED BY <1>6, <3>1, <3>2 DEF Evaluate
  <2>2. CASE Insert(latest, "engine", settings.mode = "PAPER") BY <2>0, <2>1, <2>2, StoredExits
  <2>3. CASE UNCHANGED <<table, wanted, late>> BY <1>0, <2>0, <2>1, <2>3, SameExits DEF table
  <2> QED BY <1>6, <2>2, <2>3 DEF Evaluate
<1>7. CASE Publish
  <2>1. UNCHANGED <<candle, signal, late, passedOver, latest>> /\ worker = "publish" /\ Onward
    BY <1>7 DEF Publish, table
  <2>2. Applied' = Applied BY <2>1, BatchGoesOn DEF AtBatch
  <2> QED BY <1>0, <2>1, <2>2, SameExits
<1>8. CASE BatchFails BY <1>8, FailedBatchExits
<1>9. CASE StopWorker \/ Crash
  <2>1. /\ UNCHANGED <<candle, signal, late>> /\ worker' = "down" /\ latest' = 0 /\ passedOver \subseteq passedOver'
    BY <1>9 DEF StopWorker, Crash, table, history
  <2>2. Applied' = 0 BY <2>1 DEF Applied, AtBatch
  <2> QED BY <1>0, <2>1, <2>2, SameExits
<1>10. ASSUME NEW d \in Deliveries, RequestStep(d) \/ AlertFails(d) PROVE NoMissedExit'
  <2>1. UNCHANGED <<candle, worker, latest, todo, passedOver>>
    BY <1>10 DEF RequestStep, AlertFails, ReceiveAlert, CheckEvent, InsertAlert, PublishAlert, memory, history
  <2>2. Applied' = Applied BY <2>1 DEF Applied
  <2>3. CASE Insert(AlertCandle[d], Event[d], seenMode[d] = "PAPER")
    BY <2>1, <2>2, <2>3, StoredExits, AlertsNameCandles DEF Times
  <2>4. CASE UNCHANGED <<signal, late>> BY <1>0, <2>1, <2>2, <2>4, SameExits
  <2> QED BY <1>10, <2>3, <2>4
          DEF RequestStep, AlertFails, ReceiveAlert, CheckEvent, InsertAlert, PublishAlert, table, history
<1> QED BY <1>1, <1>2, <1>3, <1>4, <1>5, <1>6, <1>7, <1>8, <1>9, <1>10 DEF SignalsNext, WorkerStep

LEMMA SignalInvariant == SignalsSpec => []SignalInv
<1>1. SignalsInit => SignalInv
  <2>1. SignalsInit => OneHand /\ HeardExactlyOnce
    BY DEF SignalsInit, OneHand, HeardExactlyOnce
  <2>2. SignalsInit => NoMissedExit BY DEF SignalsInit, NoMissedExit, Open
  <2> QED BY <2>1, <2>2, SignalsInitTypes DEF SignalInv
<1>2. SignalInv /\ [SignalsNext]_vars => SignalInv' BY SignalTypesStep, HandsStep, ExitsStep DEF SignalInv
<1> QED BY <1>1, <1>2, PTL DEF SignalsSpec

\* A signal stored for a paper deployment is handed to the broker once and never twice, for
\* any number of deliveries of any alerts, any candles and any faults; only a fault between
\* the insert and the hand-over loses it.
THEOREM SignalsAreHeardOnce == SignalsSpec => []HeardExactlyOnce
<1>1. SignalInv => HeardExactlyOnce BY DEF SignalInv
<1> QED BY <1>1, SignalInvariant, PTL

\* No candle that should have closed an open signal goes by the engine, whatever the sizes
\* of the batches, except those a restart seeds, a failed batch gives up, or that were
\* applied before the signal was stored.
THEOREM NoExitIsMissed == SignalsSpec => []NoMissedExit
<1>1. SignalInv => NoMissedExit BY DEF SignalInv
<1> QED BY <1>1, SignalInvariant, PTL

-----------------------------------------------------------------------------
(* The filter of the candidates.                                           *)

Judgements == [at : Nat, end : Int, allowed : BOOLEAN, regime : Regimes \cup {"NONE"}, confident : BOOLEAN]

\* Every admitted trade that has not ended is among those the filter counts.
RunningAreCounted ==
    fMode # "OFF" => \A i \in 1 .. Len(judged) : judged[i].allowed => i \in activeUntil \/ judged[i].end <= fNow

FilterTypes ==
    /\ fRows \in FilterRegimes /\ fNow \in Nat
    /\ judged \in Seq(Judgements) /\ activeUntil \subseteq 1 .. Len(judged)

FilterInv == FilterTypes /\ RunningAreCounted /\ BearishEntriesAreAlone

\* The regime of a moment is that of a row of the file, or none is known.
LEMMA RegimeIsKnown ==
  ASSUME fRows \in FilterRegimes, NEW t \in Nat
  PROVE  RegimeAt(t).regime \in Regimes /\ RegimeAt(t).confident \in BOOLEAN
<1> DEFINE rows == {i \in DOMAIN fRows : /\ fRows[i].ts <= t
                                         /\ fRows[i].source = Unknown \/ fRows[i].source <= t}
<1>1. CASE CausalRow(t) = Unknown BY <1>1 DEF RegimeAt, Regimes
<1>2. CASE CausalRow(t) # Unknown
  <2>1. rows # {} BY <1>2 DEF CausalRow
  <2>2. DOMAIN fRows = 1 .. Len(fRows) /\ Len(fRows) \in Nat BY FilterFilesAreRows
  <2>3. rows \in SUBSET (1 .. Len(fRows)) BY <2>2
  <2>a. IsFiniteSet(1 .. Len(fRows)) BY <2>2, FS_Interval
  <2>4. IsFiniteSet(rows) /\ rows \in SUBSET Int BY <2>3, <2>a, FS_Subset
  <2>5. Max(rows) \in rows
    <3> HIDE DEF rows
    <3> QED BY <2>1, <2>4, MaxIsGreatest
  <2>6. CausalRow(t) \in 1 .. Len(fRows) BY <2>1, <2>3, <2>5 DEF CausalRow
  <2>7. fRows[CausalRow(t)].regime \in Regimes /\ fRows[CausalRow(t)].confident \in BOOLEAN
    <3> DEFINE Row == [ts : Nat, source : Nat, oldest : Nat, regime : Regimes, confident : BOOLEAN]
               i == CausalRow(t)
    <3>1. fRows \in Seq(Row) BY FilterFilesAreRows
    <3>2. fRows[i] \in Row
      <4> HIDE DEF Row, i
      <4> QED BY <2>6, <3>1 DEF i
    <3> QED BY <3>2
  <2> QED BY <2>7 DEF RegimeAt, Regimes
<1> QED BY <1>1, <1>2

\* A bearish entry is allowed only when no admitted trade runs.
LEMMA BearishIsAlone ==
  ASSUME NEW row, NEW quality, NEW open, fMode = "ENFORCE", Allowed(row, quality, open),
         row.regime = "VOLATILITY_EXPANSION" \/ (row.regime = "BEARISH" /\ row.confident)
  PROVE  open < 1
  BY DEF Allowed

LEMMA FilterStep == FilterInv /\ [FilterNext]_filterVars => FilterInv'
<1> SUFFICES ASSUME FilterInv, [FilterNext]_filterVars PROVE FilterInv' OBVIOUS
<1>1. CASE UNCHANGED filterVars
  BY <1>1 DEF filterVars, FilterInv, FilterTypes, RunningAreCounted, BearishEntriesAreAlone
<1>2. ASSUME NEW symbol \in DOMAIN FilterQuality, NEW t \in 1 .. FilterTime,
             NEW end \in (2 .. (FilterTime + 1)) \cup {Never}, end > t, JudgeCandidate(symbol, t, end)
      PROVE  FilterInv'
  <2> DEFINE row == RegimeAt(t)
             running == StillRunning(t)
             allowed == Allowed(row, FilterQuality[symbol], Cardinality(running))
             new == [at |-> t, end |-> end, allowed |-> allowed,
                     regime |-> IF fMode = "OFF" THEN "NONE" ELSE row.regime, confident |-> row.confident]
  <2>0. /\ FilterTime \in Nat /\ t \in Nat /\ end \in Int /\ fNow \in Nat /\ Len(judged) \in Nat
        /\ judged \in Seq(Judgements) /\ DOMAIN judged = 1 .. Len(judged) /\ fRows \in FilterRegimes
    BY <1>2, FilterBoundsAreNatural DEF FilterInv, FilterTypes, Never
  <2>1. row.regime \in Regimes /\ row.confident \in BOOLEAN /\ allowed \in BOOLEAN
    BY <2>0, RegimeIsKnown DEF Allowed
  <2>2. new \in Judgements BY <2>0, <2>1 DEF Judgements
  <2>3. /\ judged' = Append(judged, new) /\ fNow' = t /\ fNow <= t /\ UNCHANGED <<fRows, fMode, fAllow>>
        /\ activeUntil' = IF fMode = "OFF" THEN activeUntil ELSE IF allowed THEN running \cup {Len(judged')} ELSE running
    BY <1>2, <2>0 DEF JudgeCandidate
  <2> HIDE DEF new
  <2>4. /\ judged' \in Seq(Judgements) /\ Len(judged') = Len(judged) + 1 /\ judged'[Len(judged) + 1] = new
        /\ \A i \in 1 .. Len(judged) : judged'[i] = judged[i]
    BY <2>0, <2>2, <2>3
  <2>5. /\ new.allowed = allowed /\ new.at = t /\ new.end = end /\ new.confident = row.confident
        /\ fMode # "OFF" => new.regime = row.regime
    BY DEF new
  <2>6. /\ running \subseteq 1 .. Len(judged)
        /\ fMode # "OFF" => \A i \in 1 .. Len(judged) : judged[i].allowed => i \in running \/ judged[i].end <= t
    <3>0. \A i \in 1 .. Len(judged) : judged[i] \in Judgements BY <2>0
    <3>1. \A i \in 1 .. Len(judged) : judged[i].end \in Int BY <3>0 DEF Judgements
    <3>2. activeUntil \subseteq 1 .. Len(judged) BY DEF FilterInv, FilterTypes
    <3>3. ASSUME fMode # "OFF", NEW i \in 1 .. Len(judged), judged[i].allowed PROVE i \in running \/ judged[i].end <= t
      <4>1. i \in activeUntil \/ judged[i].end <= fNow BY <3>3 DEF FilterInv, RunningAreCounted
      <4> QED BY <2>0, <2>3, <3>1, <4>1 DEF StillRunning
    <3> QED BY <3>2, <3>3 DEF StillRunning
  <2> HIDE DEF allowed, running
  <2>7. FilterTypes'
    <3>1. activeUntil \subseteq 1 .. Len(judged) BY DEF FilterInv, FilterTypes
    <3>2. activeUntil' \subseteq activeUntil \cup running \cup {Len(judged) + 1} BY <2>3, <2>4
    <3>3. activeUntil' \subseteq 1 .. Len(judged) + 1 BY <2>0, <2>6, <3>1, <3>2
    <3> QED BY <2>0, <2>3, <2>4, <3>3 DEF FilterTypes
  <2>8. RunningAreCounted'
    BY <2>0, <2>3, <2>4, <2>5, <2>6 DEF FilterInv, RunningAreCounted
  <2>9. BearishEntriesAreAlone'
    <3> SUFFICES ASSUME NEW j \in 1 .. Len(judged'), fMode = "ENFORCE", judged'[j].allowed,
                        \/ judged'[j].regime = "VOLATILITY_EXPANSION"
                        \/ judged'[j].regime = "BEARISH" /\ judged'[j].confident,
                        NEW i \in 1 .. (j - 1), judged'[i].allowed
                 PROVE  judged'[i].end <= judged'[j].at
      BY <2>3, <2>4 DEF BearishEntriesAreAlone
    <3>1. CASE j # Len(judged) + 1
      <4>1. j \in 1 .. Len(judged) /\ i \in 1 .. Len(judged) BY <2>0, <2>4, <3>1
      <4> QED BY <2>0, <2>4, <4>1 DEF FilterInv, BearishEntriesAreAlone
    <3>2. CASE j = Len(judged) + 1
      <4>1. i \in 1 .. Len(judged) /\ judged'[i] = judged[i] /\ judged'[j] = new BY <2>0, <2>4, <3>2
      <4>2. row.regime = "VOLATILITY_EXPANSION" \/ (row.regime = "BEARISH" /\ row.confident)
        BY <2>5, <4>1
      <4>3. Cardinality(running) < 1 BY <2>5, <4>1, <4>2, BearishIsAlone DEF allowed
      <4>4. running = {}
        <5>0. IsFiniteSet(1 .. Len(judged)) BY <2>0, FS_Interval
        <5>1. IsFiniteSet(running) BY <2>6, <5>0, FS_Subset
        <5>2. Cardinality(running) \in Nat BY <5>1, FS_CardinalityType
        <5>3. Cardinality(running) = 0 BY <4>3, <5>2
        <5> QED BY <5>1, <5>3, FS_EmptySet
      <4> QED BY <2>5, <2>6, <4>1, <4>4
    <3> QED BY <3>1, <3>2
  <2> QED BY <2>7, <2>8, <2>9 DEF FilterInv
<1> QED BY <1>1, <1>2 DEF FilterNext

\* An enforced entry in a bearish or expanding regime is alone in the portfolio, for any file
\* of regimes and any candidates: no admitted trade of any symbol still runs at its signal.
THEOREM BearishEntriesAreAlwaysAlone == FilterSpec => []BearishEntriesAreAlone
<1>1. FilterInit => FilterInv
  BY DEF FilterInit, FilterInv, FilterTypes, RunningAreCounted, BearishEntriesAreAlone
<1>2. FilterInv => BearishEntriesAreAlone BY DEF FilterInv
<1> QED BY <1>1, <1>2, FilterStep, PTL DEF FilterSpec

-----------------------------------------------------------------------------
(* The regime of the option interest.                                      *)

Packets == [id : Tracked, at : Nat, fields : SUBSET Fields]

OiTypes ==
    /\ oiNow \in Nat /\ seeds \in [Contracts \cup {"future"} -> Nat]
    /\ events \in Seq(Packets) /\ regimes \in Seq(ToSet(regimes))

\* An observation is made of nothing older than the moment it claims.
SourcesAreOldest == \A o \in observations : o.source \in Int /\ \A m \in o.made : m \in Int /\ o.source <= m

OiInv == OiTypes /\ SourcesAreOldest /\ RegimesAreFresh

\* The feed knows of no moment after the bar.
LEMMA FeedIsCausal ==
  ASSUME OiTypes, NEW id, NEW t \in Nat, NEW f \in Fields
  PROVE  FeedState(id, t)[f] \in 0 .. t
<1> DEFINE of == {i \in DOMAIN events : events[i].id = id /\ events[i].at <= t /\ f \in events[i].fields}
<1>1. FeedState(id, t)[f] = IF of = {} THEN None ELSE events[Max(of)].at BY DEF FeedState
<1>2. CASE of = {} BY <1>1, <1>2 DEF None
<1>3. CASE of # {}
  <2>1. events \in Seq(Packets) /\ DOMAIN events = 1 .. Len(events) /\ Len(events) \in Nat BY DEF OiTypes
  <2>2. of \in SUBSET (1 .. Len(events)) BY <2>1
  <2>3. IsFiniteSet(1 .. Len(events)) BY <2>1, FS_Interval
  <2>4. IsFiniteSet(of) /\ of \in SUBSET Int BY <2>2, <2>3, FS_Subset
  <2>5. Max(of) \in of
    <3> HIDE DEF of
    <3> QED BY <1>3, <2>4, MaxIsGreatest
  <2>6. Max(of) \in 1 .. Len(events) BY <2>2, <2>5
  <2>7. events[Max(of)] \in Packets /\ events[Max(of)].at <= t BY <2>1, <2>5, <2>6
  <2>8. events[Max(of)].at \in Nat BY <2>7 DEF Packets
  <2> QED BY <1>1, <1>3, <2>7, <2>8
<1> QED BY <1>2, <1>3

\* What the feed says of an instrument, and the moment of the index.
LEMMA GivenIsFinite ==
  ASSUME OiTypes, NEW id, NEW t \in Nat
  PROVE  /\ Given(FeedState(id, t)) \in SUBSET (1 .. t) /\ IsFiniteSet(Given(FeedState(id, t)))
         /\ IndexSource(t) \in 0 .. t
<1>1. ASSUME NEW x PROVE Given(FeedState(x, t)) \in SUBSET (1 .. t) /\ IsFiniteSet(Given(FeedState(x, t)))
  <2>1. Given(FeedState(x, t)) \in SUBSET (1 .. t) BY FeedIsCausal DEF Given, None
  <2>2. IsFiniteSet(1 .. t) BY FS_Interval
  <2> QED BY <2>1, <2>2, FS_Subset
<1>2. CASE IndexPrice(t) = None BY <1>1, <1>2 DEF IndexSource, None
<1>3. CASE IndexPrice(t) # None
  <2> DEFINE G == Given(FeedState("index", t))
  <2>1. IndexPrice(t) \in G BY <1>3 DEF IndexPrice, Given, Fields
  <2>2. G \in SUBSET (1 .. t) /\ IsFiniteSet(G) BY <1>1
  <2>3. G \in SUBSET Int BY <2>2
  <2>4. Min(G) \in G
    <3> HIDE DEF G
    <3> QED BY <2>1, <2>2, <2>3, MinIsLeast
  <2> QED BY <1>1, <1>3, <2>2, <2>4 DEF IndexSource
<1> QED BY <1>1, <1>2, <1>3

\* The source of an observation is the oldest of all that it is made of.
LEMMA SourceIsOldest ==
  ASSUME OiTypes, NEW id \in Contracts \cup {"future"}, NEW t \in Nat, NEW sources,
         \/ sources = OptionSources(id, t)
         \/ id = "future" /\ sources = FutureSources(t)
  PROVE  LET o == Observation(id, t, sources)
         IN  o.source \in Int /\ \A m \in o.made : m \in Int /\ o.source <= m
<1> DEFINE feed == FeedState(id, t)
           given == Given(feed)
           seed == seeds[id]
           silent == \E f \in Fields : feed[f] = None
           last == IF IndexSource(t) = None THEN seed ELSE IndexSource(t)
<1>1. seed \in Nat BY DEF OiTypes
<1>2. /\ given \in SUBSET (1 .. t) /\ IsFiniteSet(given) /\ IndexSource(t) \in 0 .. t
      /\ \A f \in Fields : feed[f] \in 0 .. t
  BY GivenIsFinite, FeedIsCausal
<1>3. PICK more \in SUBSET {seed} : /\ sources = given \cup more \cup {last}
                                    /\ silent /\ (seed <= t \/ sources = OptionSources(id, t)) => seed \in more
  <2>1. CASE sources = OptionSources(id, t)
    <3>1. sources = given \cup (IF silent THEN {seed} ELSE {}) \cup {last} BY <2>1 DEF OptionSources
    <3> QED BY <3>1
  <2>2. CASE id = "future" /\ sources = FutureSources(t) /\ sources # OptionSources(id, t)
    <3>1. sources = given \cup (IF silent /\ seed <= t THEN {seed} ELSE {}) \cup {last} BY <2>2 DEF FutureSources
    <3> QED BY <2>2, <3>1
  <2> QED BY <2>1, <2>2
<1>4. sources \in SUBSET Int /\ sources # {} /\ last \in sources /\ given \subseteq sources BY <1>1, <1>2, <1>3 DEF None
<1>5. IsFiniteSet(sources)
  <2>1. IsFiniteSet({seed}) /\ IsFiniteSet({last}) BY FS_Singleton
  <2>2. IsFiniteSet(more) BY <2>1, FS_Subset
  <2>3. IsFiniteSet(given \cup more) BY <1>2, <2>2, FS_Union
  <2> QED BY <1>3, <2>1, <2>3, FS_Union
<1>6. Min(sources) \in Int /\ \A y \in sources : Min(sources) <= y BY <1>4, <1>5, MinIsLeast
<1>7. ASSUME NEW f \in Fields PROVE Composed(id, t)[f] \in Int /\ Min(sources) <= Composed(id, t)[f]
  <2>1. Composed(id, t)[f] = IF feed[f] = None THEN seed ELSE feed[f] BY DEF Composed
  <2>2. CASE feed[f] # None
    <3>1. feed[f] \in given BY <2>2 DEF Given
    <3> QED BY <1>4, <1>6, <2>1, <2>2, <3>1
  <2>3. CASE feed[f] = None /\ seed \in sources BY <1>1, <1>6, <2>1, <2>3
  <2>4. CASE feed[f] = None /\ seed \notin sources
    <3>1. seed > t BY <1>1, <1>3, <2>4
    <3>2. last = IndexSource(t) BY <1>4, <2>4
    <3>3. last <= t /\ last \in Int BY <1>2, <3>2
    <3> QED BY <1>1, <1>4, <1>6, <2>1, <2>4, <3>1, <3>3
  <2> QED BY <2>2, <2>3, <2>4
<1> HIDE DEF feed, given, seed, silent, last
<1> QED BY <1>6, <1>7 DEF Observation

\* The regime of a bar is made of observations that are fresh at that bar.
LEMMA SnapshotIsFresh ==
  ASSUME SourcesAreOldest, NEW t \in Nat, NEW insufficient
  PROVE  Snapshot(t, insufficient).ts = t /\ \A m \in Snapshot(t, insufficient).made : t - m <= OiStale
<1> DEFINE used == Scored(Contracts, t) \cup Scored({"future"}, t)
<1>1. \A o \in used : o \in observations /\ Eligible(o, t) BY DEF Scored, Current
<1>2. Snapshot(t, insufficient).ts = t /\ Snapshot(t, insufficient).made \subseteq UNION {o.made : o \in used}
  BY DEF Snapshot
<1>3. ASSUME NEW m \in Snapshot(t, insufficient).made PROVE t - m <= OiStale
  <2>1. PICK o \in used : m \in o.made BY <1>2, <1>3
  <2>2. o.source \in Int /\ m \in Int /\ o.source <= m BY <1>1, <2>1 DEF SourcesAreOldest
  <2>3. t - o.source <= OiStale BY <1>1, <2>1 DEF Eligible
  <2> QED BY <2>2, <2>3, OiConfigIsValid
<1> QED BY <1>2, <1>3

LEMMA OiStep == OiInv /\ [OiNext]_oiVars => OiInv'
<1> SUFFICES ASSUME OiInv, [OiNext]_oiVars PROVE OiInv' OBVIOUS
<1> USE DEF OiInv
<1>0. OiBar \in Nat \ {0} /\ oiNow \in Nat /\ events \in Seq(Packets) BY OiConfigIsValid DEF OiTypes
<1>1. LastClose \in Nat BY <1>0 DEF LastClose
<1>2. CASE UNCHANGED oiVars BY <1>2 DEF oiVars, serviceVars, OiTypes, SourcesAreOldest, RegimesAreFresh
<1>3. CASE OiTick BY <1>3 DEF OiTick, serviceVars, OiTypes, SourcesAreOldest, RegimesAreFresh
<1>4. CASE InvalidateLiveState
  BY <1>4 DEF InvalidateLiveState, OiTypes, SourcesAreOldest, RegimesAreFresh, None
<1>5. CASE \E quoted \in SUBSET {"future"} : PrepareSubscriptions(quoted)
  BY <1>5 DEF PrepareSubscriptions, OiTypes, SourcesAreOldest, RegimesAreFresh, None
<1>6. CASE \E id \in Tracked, at \in 1 .. MaxOiTime, fields \in SUBSET Fields \ {{}} : OnMarketFeed(id, at, fields)
  <2>1. PICK id \in Tracked, at \in 1 .. MaxOiTime, fields \in SUBSET Fields \ {{}} : OnMarketFeed(id, at, fields)
    BY <1>6
  <2>2. [id |-> id, at |-> at, fields |-> fields] \in Packets BY <2>1 DEF Packets
  <2>3. events' \in Seq(Packets) BY <1>0, <2>1, <2>2 DEF OnMarketFeed
  <2> QED BY <2>1, <2>3 DEF OnMarketFeed, OiTypes, SourcesAreOldest, RegimesAreFresh
<1>7. CASE CompleteLiveBar(LastClose)
  <2>1. \A o \in BarObservations(LastClose) : o.source \in Int /\ \A m \in o.made : m \in Int /\ o.source <= m
    <3> TAKE o \in BarObservations(LastClose)
    <3>1. CASE \E id \in Contracts : o = Observation(id, LastClose, OptionSources(id, LastClose))
      BY <1>1, <3>1, SourceIsOldest
    <3>2. CASE o = Observation("future", LastClose, FutureSources(LastClose)) BY <1>1, <3>2, SourceIsOldest
    <3> QED BY <3>1, <3>2 DEF BarObservations
  <2> QED BY <1>7, <2>1 DEF CompleteLiveBar, OiTypes, SourcesAreOldest, RegimesAreFresh
<1>8. CASE \E down \in BOOLEAN : Refresh(LastClose, down)
  <2>1. PICK down \in BOOLEAN : Refresh(LastClose, down) BY <1>8
  <2> DEFINE new == Snapshot(LastClose, down)
             T == ToSet(regimes)
  <2>2. new.ts = LastClose /\ \A m \in new.made : LastClose - m <= OiStale BY <1>1, SnapshotIsFresh
  <2>3. regimes \in Seq(T) BY DEF OiTypes
  <2>4. UNCHANGED <<oiNow, seeds, events, observations>> /\ (regimes' = regimes \/ regimes' = Append(regimes, new))
    BY <2>1 DEF Refresh
  <2> HIDE DEF new
  <2>5. CASE regimes' = regimes BY <2>4, <2>5 DEF OiTypes, SourcesAreOldest, RegimesAreFresh
  <2>6. CASE regimes' = Append(regimes, new)
    <3>1. regimes \in Seq(T \cup {new}) /\ Len(regimes) \in Nat
      <4> HIDE DEF T
      <4> QED BY <2>3
    <3>2. /\ regimes' \in Seq(T \cup {new}) /\ DOMAIN regimes' = 1 .. Len(regimes) + 1
          /\ regimes'[Len(regimes) + 1] = new /\ DOMAIN regimes = 1 .. Len(regimes)
          /\ \A i \in 1 .. Len(regimes) : regimes'[i] = regimes[i]
      <4> HIDE DEF T
      <4> QED BY <2>6, <3>1
    <3>3. T \cup {new} = ToSet(regimes')
      <4>1. T = {regimes[i] : i \in 1 .. Len(regimes)} /\ ToSet(regimes') = {regimes'[i] : i \in 1 .. Len(regimes) + 1}
        BY <3>2 DEF ToSet
      <4> QED BY <3>1, <3>2, <4>1
    <3>4. OiTypes' BY <2>4, <3>2, <3>3 DEF OiTypes
    <3>5. RegimesAreFresh'
      <4> SUFFICES ASSUME NEW i \in 1 .. Len(regimes) + 1, NEW m \in regimes'[i].made PROVE regimes'[i].ts - m <= OiStale
        BY <3>2 DEF RegimesAreFresh
      <4>1. CASE i = Len(regimes) + 1 BY <2>2, <3>2, <4>1
      <4>2. CASE i \in 1 .. Len(regimes) BY <3>2, <4>2 DEF RegimesAreFresh
      <4> QED BY <3>1, <4>1, <4>2
    <3> QED BY <2>4, <3>4, <3>5 DEF SourcesAreOldest
  <2> QED BY <2>4, <2>5, <2>6
<1> QED BY <1>2, <1>3, <1>4, <1>5, <1>6, <1>7, <1>8 DEF OiNext

\* A regime that trades are judged by is made of no datum older than the tolerance, for any
\* contracts, any order of packets and whichever fields the feed was silent about.
THEOREM RegimesAreAlwaysFresh == OiSpec => []RegimesAreFresh
<1>1. OiInit => OiInv
  BY DEF OiInit, OiInv, OiTypes, SourcesAreOldest, RegimesAreFresh, ToSet, None
<1>2. OiInv => RegimesAreFresh BY DEF OiInv
<1> QED BY <1>1, <1>2, OiStep, PTL DEF OiSpec

-----------------------------------------------------------------------------
(* The crypto pullback and its backtest.                                   *)

Found == [side : Sides, bar : Nat \ {0}, risk : Nat \ {0}, arm : Nat]

Outcomes == {"STOP", "TARGET", "TIME_EXIT"}

PullbackTypes ==
    /\ config \in PullbackConfigs /\ frame \in Seq(PullbackBars) /\ pulling \in {"bars", "trades"}
    /\ arm \in [Sides -> Nat]
    /\ candidates \in Seq(Found) /\ pending \in Seq(Found) /\ occupied \in Nat
    /\ pTrades \in Seq([of : Found, entry : Nat, exit : Nat, outcome : Outcomes, net : Int])

\* A side that is armed was armed in its zone, and has not signalled since.
ArmsAreFresh ==
    \A side \in Sides :
        /\ arm[side] <= Len(frame)
        /\ arm[side] # 0 => /\ InZone(side, frame[arm[side]].rsi)
                            /\ \A i \in 1 .. Len(candidates) : candidates[i].side = side => candidates[i].bar < arm[side]

\* The candidates are in the order of their bars.
CandidatesAreOrdered ==
    /\ \A i \in 1 .. Len(candidates) : candidates[i].bar <= Len(frame) /\ candidates[i].arm # 0
    /\ \A i, j \in 1 .. Len(candidates) : i < j => candidates[i].bar < candidates[j].bar

\* The candidates the backtest has dealt with.
Dealt == Len(candidates) - Len(pending)

\* Those that have a next bar have been traded, or a trade was open there.
DealtAreCovered ==
    IF pulling = "bars" THEN pTrades = <<>> /\ pending = <<>> /\ occupied = 0
    ELSE /\ Len(pending) <= Len(candidates) /\ \A i \in 1 .. Len(pending) : pending[i] = candidates[Dealt + i]
         /\ \A j \in 1 .. Dealt : candidates[j].bar < Len(frame) =>
               \E i \in 1 .. Len(pTrades) : pTrades[i].entry <= candidates[j].bar + 1 /\ candidates[j].bar + 1 <= pTrades[i].exit
         /\ occupied # 0 => \E i \in 1 .. Len(pTrades) : pTrades[i].exit = occupied
         /\ \A i \in 1 .. Len(pTrades) :
               /\ pTrades[i].exit <= occupied /\ pTrades[i].entry = pTrades[i].of.bar + 1
               /\ \A j \in 1 .. Len(pending) : pTrades[i].entry <= pending[j].bar + 1

PullbackInv == PullbackTypes /\ ArmsAreFresh /\ CandidatesAreOrdered /\ DealtAreCovered /\ PullbackIsSound

\* What a valid request and a real bar are.
LEMMA ConfigIs ==
  ASSUME config \in PullbackConfigs
  PROVE  /\ {config.buyLow, config.buyHigh, config.sellLow, config.sellHigh, config.level} \subseteq Int
         /\ config.buyHigh <= config.level /\ config.level <= config.sellLow
         /\ config.expiry \in Nat \ {0} /\ config.hold \in Nat \ {0} /\ config.ratio \in Nat \ {0}
  BY PullbackConfigsAreValid DEF ConfigOK

LEMMA ExtremaOfTwo ==
  ASSUME NEW a \in Int, NEW b \in Int
  PROVE  /\ Min({a, b}) \in {a, b} /\ Min({a, b}) <= a /\ Min({a, b}) <= b
         /\ Max({a, b}) \in {a, b} /\ Max({a, b}) >= a /\ Max({a, b}) >= b
<1>1. IsFiniteSet({a}) /\ IsFiniteSet({b}) BY FS_Singleton
<1>2. IsFiniteSet({a} \cup {b}) BY <1>1, FS_Union
<1>3. {a} \cup {b} = {a, b} OBVIOUS
<1>4. IsFiniteSet({a, b}) /\ {a, b} \in SUBSET Int /\ {a, b} # {} BY <1>2, <1>3
<1> QED BY <1>4, MinIsLeast, MaxIsGreatest

LEMMA BarIs ==
  ASSUME NEW b \in PullbackBars
  PROVE  /\ b.o \in Int /\ b.h \in Int /\ b.l \in Int /\ b.c \in Int /\ b.rsi \in Int /\ b.risk \in Nat
         /\ b.l <= b.c /\ b.c <= b.h
<1>1. /\ b.o \in Int /\ b.h \in Int /\ b.l \in Int /\ b.c \in Int /\ b.rsi \in Int /\ b.risk \in Nat
      /\ b.l <= Min({b.o, b.c}) /\ Max({b.o, b.c}) <= b.h
  BY PullbackBarsAreBars
<1>2. /\ Min({b.o, b.c}) \in {b.o, b.c} /\ Min({b.o, b.c}) <= b.c
      /\ Max({b.o, b.c}) \in {b.o, b.c} /\ Max({b.o, b.c}) >= b.c
  BY <1>1, ExtremaOfTwo
<1>3. Min({b.o, b.c}) \in Int /\ Max({b.o, b.c}) \in Int BY <1>1, <1>2
<1> QED BY <1>1, <1>2, <1>3

\* A side is armed by this bar, in its zone, or as it was before.
LEMMA ArmedIs ==
  ASSUME PullbackTypes, NEW side \in Sides, NEW at \in Nat \ {0}, NEW bar
  PROVE  /\ Armed(side, at, bar) \in Nat
         /\ Armed(side, at, bar) # 0 =>
              /\ at - Armed(side, at, bar) <= config.expiry
              /\ \/ Armed(side, at, bar) = at /\ InZone(side, bar.rsi)
                 \/ Armed(side, at, bar) = arm[side]
<1>1. config.expiry \in Nat /\ arm[side] \in Nat BY ConfigIs DEF PullbackTypes
<1>2. CASE InZone(side, bar.rsi)
  <2>1. at - at = 0 /\ 0 <= config.expiry BY <1>1
  <2>2. Armed(side, at, bar) = at BY <1>1, <1>2, <2>1 DEF Armed
  <2> QED BY <1>2, <2>1, <2>2
<1>3. CASE ~ InZone(side, bar.rsi) BY <1>1, <1>3 DEF Armed
<1> QED BY <1>2, <1>3

\* The recovery that makes a signal leaves the zone, so an earlier bar has armed the side.
LEMMA SignalLeavesZone ==
  ASSUME PullbackTypes, NEW side \in Sides, NEW at \in Nat, NEW previous \in PullbackBars, NEW bar \in PullbackBars,
         Signals(side, at, previous, bar)
  PROVE  ~ InZone(side, bar.rsi)
<1>1. Crosses(side, previous.rsi, bar.rsi) BY DEF Signals
<1>2. bar.rsi \in Int /\ previous.rsi \in Int BY BarIs
<1>3. /\ {config.buyLow, config.buyHigh, config.sellLow, config.sellHigh, config.level} \subseteq Int
      /\ config.buyHigh <= config.level /\ config.level <= config.sellLow
  BY ConfigIs DEF PullbackTypes
<1> QED BY <1>1, <1>2, <1>3 DEF Crosses, InZone

\* A bar that is evaluated: at most one candidate more, of this bar and of a side that it disarms.
LEMMA BarEvaluated ==
  ASSUME PullbackTypes, ArmsAreFresh, NEW bar \in PullbackBars, Len(frame) \in Nat \ {0},
         EvaluateBar(Len(frame) + 1, frame[Len(frame)], bar)
  PROVE  \/ UNCHANGED <<arm, candidates>>
         \/ /\ arm' \in [Sides -> Nat]
            /\ \A side \in Sides : arm'[side] # 0 =>
                 \/ arm'[side] = Len(frame) + 1 /\ InZone(side, bar.rsi)
                 \/ arm'[side] = arm[side]
            /\ \/ candidates' = candidates
               \/ \E c \in Found : /\ candidates' = Append(candidates, c)
                                   /\ c.bar = Len(frame) + 1 /\ c.arm # 0 /\ c.arm = arm[c.side]
                                   /\ arm'[c.side] = 0 /\ c.bar - c.arm <= config.expiry
<1> DEFINE at == Len(frame) + 1
           previous == frame[Len(frame)]
           signalling == {side \in Sides : Signals(side, at, previous, bar)}
           found == {Candidate(side, at, bar) : side \in {s \in signalling : bar.risk > 0}}
<1>0. at \in Nat \ {0} /\ previous \in PullbackBars BY DEF PullbackTypes
<1> SUFFICES ASSUME ~ UNCHANGED <<arm, candidates>>
             PROVE  /\ arm' \in [Sides -> Nat]
                    /\ \A side \in Sides : arm'[side] # 0 =>
                         \/ arm'[side] = Len(frame) + 1 /\ InZone(side, bar.rsi)
                         \/ arm'[side] = arm[side]
                    /\ \/ candidates' = candidates
                       \/ \E c \in Found : /\ candidates' = Append(candidates, c)
                                           /\ c.bar = Len(frame) + 1 /\ c.arm # 0 /\ c.arm = arm[c.side]
                                           /\ arm'[c.side] = 0 /\ c.bar - c.arm <= config.expiry
  OBVIOUS
<1>1. /\ arm' = [side \in Sides |-> IF side \in signalling THEN 0 ELSE Armed(side, at, bar)]
      /\ candidates' = IF found = {} THEN candidates ELSE Append(candidates, CHOOSE c \in found : TRUE)
  BY DEF EvaluateBar
<1> HIDE DEF at, previous
<1>2. \A side \in Sides : Armed(side, at, bar) \in Nat BY <1>0, ArmedIs
<1>3. arm' \in [Sides -> Nat] BY <1>1, <1>2
<1>4. ASSUME NEW side \in Sides, arm'[side] # 0
      PROVE  (arm'[side] = at /\ InZone(side, bar.rsi)) \/ arm'[side] = arm[side]
  BY <1>0, <1>1, <1>4, ArmedIs
<1>5. CASE found = {} BY <1>1, <1>3, <1>4, <1>5 DEF at
<1>6. CASE found # {}
  <2>1. PICK c \in found : candidates' = Append(candidates, c) BY <1>1, <1>6
  <2>2. PICK side \in signalling : bar.risk > 0 /\ c = Candidate(side, at, bar) BY <2>1
  <2>3. /\ c.side = side /\ c.bar = at /\ c.risk = bar.risk /\ c.arm = Armed(side, at, bar) BY <2>2 DEF Candidate
  <2>4. side \in Sides /\ Armed(side, at, bar) # 0 /\ ~ InZone(side, bar.rsi)
    BY <1>0, <2>2, SignalLeavesZone DEF Signals
  <2>5. c.arm = arm[side] /\ at - c.arm <= config.expiry BY <1>0, <2>3, <2>4, ArmedIs
  <2>6. c \in Found
    <3>1. bar.risk \in Nat \ {0} BY <2>2, BarIs
    <3> QED BY <1>0, <1>2, <2>2, <2>4, <3>1 DEF Candidate, Found
  <2>7. arm'[side] = 0 BY <1>1, <2>2
  <2> HIDE DEF signalling, found
  <2> QED BY <1>3, <1>4, <2>1, <2>3, <2>4, <2>5, <2>6, <2>7 DEF at
<1> QED BY <1>5, <1>6

LEMMA NextBarStep ==
  ASSUME PullbackInv, NEW bar \in PullbackBars, NextFrameBar(bar)
  PROVE  PullbackInv'
<1> DEFINE n == Len(frame)
<1>0. /\ n \in Nat /\ frame \in Seq(PullbackBars) /\ frame' = Append(frame, bar) /\ pulling = "bars"
      /\ UNCHANGED <<config, pulling, pending, occupied, pTrades>>
  BY DEF NextFrameBar, PullbackInv, PullbackTypes
<1>1. frame' \in Seq(PullbackBars) /\ Len(frame') = n + 1 /\ frame'[n + 1] = bar /\ \A i \in 1 .. n : frame'[i] = frame[i]
  BY <1>0
<1>2. \/ UNCHANGED <<arm, candidates>>
      \/ /\ arm' \in [Sides -> Nat]
         /\ \A side \in Sides : arm'[side] # 0 =>
              \/ arm'[side] = n + 1 /\ InZone(side, bar.rsi)
              \/ arm'[side] = arm[side]
         /\ \/ candidates' = candidates
            \/ \E c \in Found : /\ candidates' = Append(candidates, c)
                                /\ c.bar = n + 1 /\ c.arm # 0 /\ c.arm = arm[c.side]
                                /\ arm'[c.side] = 0 /\ c.bar - c.arm <= config.expiry
  <2>1. CASE frame = <<>> BY <2>1 DEF NextFrameBar
  <2>2. CASE frame # <<>>
    <3>1. n \in Nat \ {0} BY <1>0, <2>2
    <3> QED BY <2>2, <3>1, BarEvaluated DEF NextFrameBar, PullbackInv
  <2> QED BY <2>1, <2>2
<1> HIDE DEF n
<1>3. /\ arm \in [Sides -> Nat] /\ candidates \in Seq(Found) /\ Len(candidates) \in Nat
      /\ DOMAIN candidates = 1 .. Len(candidates)
      /\ \A i \in 1 .. Len(candidates) : candidates[i] \in Found /\ candidates[i].bar \in Nat /\ candidates[i].arm \in Nat
  <2>1. candidates \in Seq(Found) /\ arm \in [Sides -> Nat] BY DEF PullbackInv, PullbackTypes
  <2>2. \A i \in 1 .. Len(candidates) : candidates[i] \in Found BY <2>1
  <2> QED BY <2>1, <2>2 DEF Found
<1>4. /\ \A side \in Sides : arm[side] \in Nat /\ arm[side] <= n
      /\ \A side \in Sides : arm[side] # 0 =>
           /\ InZone(side, frame[arm[side]].rsi)
           /\ \A i \in 1 .. Len(candidates) : candidates[i].side = side => candidates[i].bar < arm[side]
  BY <1>3 DEF PullbackInv, ArmsAreFresh, n
<1>5. /\ \A i \in 1 .. Len(candidates) : candidates[i].bar <= n /\ candidates[i].arm # 0
      /\ \A i, j \in 1 .. Len(candidates) : i < j => candidates[i].bar < candidates[j].bar
  BY DEF PullbackInv, CandidatesAreOrdered, n
<1>6. \A j \in 1 .. Len(candidates) :
        /\ candidates[j].arm < candidates[j].bar /\ candidates[j].bar - candidates[j].arm <= config.expiry
        /\ InZone(candidates[j].side, frame[candidates[j].arm].rsi)
        /\ \A i \in 1 .. (j - 1) : candidates[i].side = candidates[j].side => candidates[i].bar < candidates[j].arm
  BY <1>3 DEF PullbackInv, PullbackIsSound, SetupsAreUsedOnce
<1>10. \A j \in 1 .. Len(candidates) : candidates[j].arm \in 1 .. n
  <2> TAKE j \in 1 .. Len(candidates)
  <2>1. candidates[j].arm \in Nat /\ candidates[j].bar \in Nat /\ candidates[j].arm # 0
        /\ candidates[j].arm < candidates[j].bar /\ candidates[j].bar <= n
    BY <1>3, <1>5, <1>6
  <2> QED BY <1>0, <2>1 DEF n
<1>7. \A side, rsi : InZone(side, rsi)' <=> InZone(side, rsi) BY <1>0 DEF InZone
<1>8. CASE UNCHANGED candidates
  <2>1. arm' \in [Sides -> Nat] /\ \A side \in Sides : arm'[side] # 0 =>
              \/ arm'[side] = n + 1 /\ InZone(side, bar.rsi)
              \/ arm'[side] = arm[side]
    BY <1>2, <1>3
  <2>2. ArmsAreFresh'
    <3> SUFFICES ASSUME NEW side \in Sides
                 PROVE  /\ arm'[side] <= n + 1
                        /\ arm'[side] # 0 =>
                             /\ InZone(side, frame'[arm'[side]].rsi)
                             /\ \A i \in 1 .. Len(candidates) : candidates[i].side = side => candidates[i].bar < arm'[side]
      BY <1>0, <1>1, <1>8 DEF ArmsAreFresh, InZone
    <3>1. CASE arm'[side] = 0 BY <1>0, <3>1 DEF n
    <3>2. CASE arm'[side] = n + 1 /\ InZone(side, bar.rsi) BY <1>0, <1>1, <1>3, <1>5, <3>2 DEF n
    <3>3. CASE arm'[side] = arm[side] /\ arm[side] # 0
      <4>1. arm[side] \in 1 .. n BY <1>0, <1>4, <3>3 DEF n
      <4> QED BY <1>0, <1>1, <1>4, <3>3, <4>1 DEF n
    <3> QED BY <2>1, <3>1, <3>2, <3>3
  <2>3. CandidatesAreOrdered' BY <1>0, <1>1, <1>3, <1>5, <1>8 DEF CandidatesAreOrdered, n
  <2>4. SetupsAreUsedOnce'
    <3> SUFFICES ASSUME NEW j \in 1 .. Len(candidates)
                 PROVE  /\ candidates[j].arm < candidates[j].bar /\ candidates[j].bar - candidates[j].arm <= config.expiry
                        /\ InZone(candidates[j].side, frame'[candidates[j].arm].rsi)
                        /\ \A i \in 1 .. (j - 1) : candidates[i].side = candidates[j].side => candidates[i].bar < candidates[j].arm
      BY <1>0, <1>3, <1>8 DEF SetupsAreUsedOnce, InZone
    <3> QED BY <1>1, <1>6, <1>10
  <2>5. PullbackTypes' /\ DealtAreCovered' /\ StopBoundsTheLoss' /\ OnePositionAtATime'
    BY <1>0, <1>1, <1>8, <2>1 DEF PullbackInv, PullbackTypes, DealtAreCovered, StopBoundsTheLoss, OnePositionAtATime
  <2> QED BY <2>2, <2>3, <2>4, <2>5 DEF PullbackInv, PullbackIsSound
<1>9. ASSUME NEW c \in Found, candidates' = Append(candidates, c), c.bar = n + 1, c.arm # 0, c.arm = arm[c.side],
             arm'[c.side] = 0, c.bar - c.arm <= config.expiry, arm' \in [Sides -> Nat],
             \A side \in Sides : arm'[side] # 0 =>
                 \/ arm'[side] = n + 1 /\ InZone(side, bar.rsi)
                 \/ arm'[side] = arm[side]
      PROVE  PullbackInv'
  <2>0. c.side \in Sides /\ c.bar \in Nat /\ c.arm \in Nat BY DEF Found
  <2>1. /\ candidates' \in Seq(Found) /\ Len(candidates') = Len(candidates) + 1 /\ candidates'[Len(candidates) + 1] = c
        /\ \A i \in 1 .. Len(candidates) : candidates'[i] = candidates[i]
    BY <1>3, <1>9
  <2>2. ArmsAreFresh'
    <3> SUFFICES ASSUME NEW side \in Sides
                 PROVE  /\ arm'[side] <= n + 1
                        /\ arm'[side] # 0 =>
                             /\ InZone(side, frame'[arm'[side]].rsi)
                             /\ \A i \in 1 .. Len(candidates') : candidates'[i].side = side => candidates'[i].bar < arm'[side]
      BY <1>0, <1>1 DEF ArmsAreFresh, InZone
    <3>1. CASE arm'[side] = 0 BY <1>0, <3>1 DEF n
    <3>0. \A i \in 1 .. Len(candidates') : candidates'[i].side = side /\ side # c.side =>
             i \in 1 .. Len(candidates) /\ candidates'[i] = candidates[i]
      BY <1>3, <2>1
    <3>2. CASE arm'[side] = n + 1 /\ InZone(side, bar.rsi) /\ side # c.side
      <4>1. \A i \in 1 .. Len(candidates') : candidates'[i].side = side => candidates'[i].bar < n + 1
        <5> TAKE i \in 1 .. Len(candidates')
        <5> HAVE candidates'[i].side = side
        <5>1. i \in 1 .. Len(candidates) /\ candidates'[i] = candidates[i] BY <3>0, <3>2
        <5>2. candidates[i].bar \in Nat /\ candidates[i].bar <= n BY <1>3, <1>5, <5>1
        <5> QED BY <1>0, <5>1, <5>2 DEF n
      <4> QED BY <1>0, <1>1, <3>2, <4>1 DEF n
    <3>3. CASE arm'[side] = arm[side] /\ arm[side] # 0 /\ side # c.side
      <4>1. arm[side] \in 1 .. n BY <1>0, <1>4, <3>3 DEF n
      <4>2. \A i \in 1 .. Len(candidates') : candidates'[i].side = side => candidates'[i].bar < arm[side]
        BY <1>4, <3>0, <3>3
      <4>3. InZone(side, frame'[arm[side]].rsi) BY <1>1, <1>4, <3>3, <4>1
      <4>4. arm[side] <= n + 1 BY <1>0, <4>1 DEF n
      <4> QED BY <3>3, <4>2, <4>3, <4>4
    <3> QED BY <1>9, <3>1, <3>2, <3>3
  <2>3. CandidatesAreOrdered'
    <3>1. \A i \in 1 .. Len(candidates') : candidates'[i].bar <= n + 1 /\ candidates'[i].arm # 0
      BY <1>0, <1>3, <1>5, <1>9, <2>0, <2>1 DEF n
    <3>2. \A i, j \in 1 .. Len(candidates') : i < j => candidates'[i].bar < candidates'[j].bar
      <4> TAKE i, j \in 1 .. Len(candidates')
      <4> HAVE i < j
      <4>0. i \in 1 .. Len(candidates) /\ candidates'[i] = candidates[i] /\ candidates[i].bar <= n /\ candidates[i].bar \in Nat
        BY <1>3, <1>5, <2>1
      <4>1. CASE j = Len(candidates) + 1 BY <1>0, <1>9, <2>0, <2>1, <4>0, <4>1 DEF n
      <4>2. CASE j # Len(candidates) + 1
        <5>1. j \in 1 .. Len(candidates) /\ candidates'[j] = candidates[j] BY <1>3, <2>1, <4>2
        <5> QED BY <1>5, <4>0, <5>1
      <4> QED BY <4>1, <4>2
    <3> QED BY <1>1, <3>1, <3>2 DEF CandidatesAreOrdered
  <2>4. SetupsAreUsedOnce'
    <3> SUFFICES ASSUME NEW j \in 1 .. Len(candidates')
                 PROVE  /\ candidates'[j].arm < candidates'[j].bar /\ candidates'[j].bar - candidates'[j].arm <= config.expiry
                        /\ InZone(candidates'[j].side, frame'[candidates'[j].arm].rsi)
                        /\ \A i \in 1 .. (j - 1) : candidates'[i].side = candidates'[j].side => candidates'[i].bar < candidates'[j].arm
      <4>1. DOMAIN candidates' = 1 .. Len(candidates') BY <2>1
      <4> QED BY <1>0, <4>1 DEF SetupsAreUsedOnce, InZone
    <3>1. CASE j # Len(candidates) + 1
      <4>1. j \in 1 .. Len(candidates) /\ candidates'[j] = candidates[j] BY <1>3, <2>1, <3>1
      <4>2. candidates[j].arm \in 1 .. n BY <1>10, <4>1
      <4>3. \A i \in 1 .. (j - 1) : candidates'[i] = candidates[i] BY <1>3, <2>1, <4>1
      <4> QED BY <1>1, <1>6, <4>1, <4>2, <4>3
    <3>2. CASE j = Len(candidates) + 1
      <4>1. c.arm \in 1 .. n /\ InZone(c.side, frame[c.arm].rsi) BY <1>0, <1>4, <1>9, <2>0 DEF n
      <4>2. \A i \in 1 .. (j - 1) : i \in 1 .. Len(candidates) BY <1>3, <3>2
      <4> QED BY <1>0, <1>1, <1>4, <1>9, <2>0, <2>1, <3>2, <4>1, <4>2 DEF n
    <3> QED BY <3>1, <3>2
  <2>5. PullbackTypes' BY <1>0, <1>1, <1>9, <2>1 DEF PullbackInv, PullbackTypes
  <2>6. DealtAreCovered' /\ StopBoundsTheLoss' /\ OnePositionAtATime'
    <3>1. pTrades = <<>> /\ pending = <<>> /\ occupied = 0 BY <1>0 DEF PullbackInv, DealtAreCovered
    <3> QED BY <1>0, <3>1 DEF DealtAreCovered, StopBoundsTheLoss, OnePositionAtATime
  <2> QED BY <2>2, <2>3, <2>4, <2>5, <2>6 DEF PullbackInv, PullbackIsSound
<1> QED BY <1>2, <1>8, <1>9

\* What a trade that is entered comes to.
LEMMA ExitIs ==
  ASSUME PullbackTypes, NEW c \in Found, c.bar + 1 <= Len(frame)
  PROVE  /\ Exit(c).bar \in Nat /\ c.bar + 1 <= Exit(c).bar /\ Exit(c).bar <= Len(frame)
         /\ Exit(c).outcome \in Outcomes /\ NetProfit(c) \in Int
         /\ \A i \in (c.bar + 2) .. Exit(c).bar : StopHit(c, i) => i = Exit(c).bar /\ Exit(c).outcome = "STOP"
         /\ Exit(c).bar > c.bar + 1 => NetProfit(c) >= - (c.risk + PullbackSlip + PullbackCost)
<1> DEFINE n == Len(frame)
           last == LastBar(c)
           touched == {i \in (c.bar + 2) .. last : StopHit(c, i) \/ TargetHit(c, i)}
           first == Min(touched)
<1>0. /\ n \in Nat /\ c.bar \in Nat /\ c.risk \in Nat /\ c.side \in Sides /\ config.hold \in Nat \ {0} /\ config.ratio \in Nat \ {0}
      /\ PullbackSlip \in Nat /\ PullbackCost \in Nat
      /\ \A i \in 1 .. n : frame[i].o \in Int /\ frame[i].h \in Int /\ frame[i].l \in Int /\ frame[i].c \in Int
                           /\ frame[i].l <= frame[i].c /\ frame[i].c <= frame[i].h
  <2>1. frame \in Seq(PullbackBars) /\ n \in Nat BY DEF PullbackTypes
  <2>2. \A i \in 1 .. n : frame[i] \in PullbackBars BY <2>1
  <2>3. config.hold \in Nat \ {0} /\ config.ratio \in Nat \ {0} BY ConfigIs DEF PullbackTypes
  <2> HIDE DEF n
  <2> QED BY <2>1, <2>2, <2>3, BarIs, PullbackBounds DEF Found
<1>1. last \in Int /\ c.bar + 1 <= last /\ last <= n /\ (last = n \/ last = c.bar + 1 + config.hold)
  <2>1. c.bar + 1 + config.hold \in Int /\ n \in Int BY <1>0
  <2>2. last \in {n, c.bar + 1 + config.hold} /\ last <= n BY <2>1, ExtremaOfTwo DEF LastBar
  <2> HIDE DEF n, last
  <2>3. c.bar + 1 <= n BY DEF n
  <2> QED BY <1>0, <2>2, <2>3
<1>2. /\ touched = {} \/ (first \in touched /\ \A i \in touched : first <= i)
      /\ touched \subseteq Int
  <2>0. c.bar + 2 \in Int /\ last \in Int BY <1>0, <1>1
  <2>1. IsFiniteSet((c.bar + 2) .. last)
    <3> HIDE DEF last
    <3> QED BY <2>0, FS_Interval
  <2>2. IsFiniteSet(touched) BY <2>1, FS_Subset
  <2>3. touched \in SUBSET Int BY <1>0, <1>1
  <2> QED BY <2>2, <2>3, MinIsLeast
<1>3. /\ touched = {} => Exit(c) = [bar |-> last, raw |-> frame[last].c, outcome |-> "TIME_EXIT"]
      /\ touched # {} /\ StopHit(c, first) => Exit(c) = [bar |-> first, raw |-> StopPrice(c), outcome |-> "STOP"]
      /\ touched # {} /\ ~ StopHit(c, first) => Exit(c) = [bar |-> first, raw |-> TargetPrice(c), outcome |-> "TARGET"]
  BY DEF Exit
<1> DEFINE entry == EntryPrice(c)
<1>4. /\ entry \in Int
      /\ \/ c.side = "BUY" /\ StopPrice(c) = entry - c.risk /\ TargetPrice(c) = entry + c.risk * config.ratio
         \/ c.side = "SELL" /\ StopPrice(c) = entry + c.risk /\ TargetPrice(c) = entry - c.risk * config.ratio
      /\ c.risk * config.ratio \in Nat
  <2>1. entry \in Int
    <3>1. c.bar + 1 \in 1 .. n BY <1>0
    <3>2. frame[c.bar + 1].o \in Int BY <1>0, <3>1
    <3> QED BY <1>0, <3>2 DEF EntryPrice, Sign
  <2>2. c.risk * config.ratio \in Nat BY <1>0
  <2>3. (-1 * c.risk) * config.ratio = - (c.risk * config.ratio) BY <1>0
  <2> HIDE DEF entry
  <2>4. StopPrice(c) = entry - Sign(c.side) * c.risk /\ TargetPrice(c) = entry + Sign(c.side) * c.risk * config.ratio
    BY DEF StopPrice, TargetPrice, entry
  <2>5. CASE c.side = "BUY" BY <1>0, <2>1, <2>2, <2>4, <2>5 DEF Sign
  <2>6. CASE c.side = "SELL"
    <3>1. Sign(c.side) = -1 BY <2>6 DEF Sign
    <3> QED BY <1>0, <2>1, <2>2, <2>3, <2>4, <2>6, <3>1
  <2> QED BY <1>0, <2>1, <2>2, <2>5, <2>6 DEF Sides
<1>5. NetProfit(c) = Sign(c.side) * (Exit(c).raw - entry) - PullbackSlip - PullbackCost BY DEF NetProfit
<1> HIDE DEF entry, n, last, first
<1>6. CASE touched = {}
  <2>1. Exit(c).bar = last /\ Exit(c).raw = frame[last].c /\ Exit(c).outcome = "TIME_EXIT" BY <1>3, <1>6
  <2>2. \A i \in (c.bar + 2) .. last : ~ StopHit(c, i) BY <1>6
  <2>3. last \in 1 .. n BY <1>0, <1>1
  <2>4. Exit(c).raw \in Int BY <1>0, <2>1, <2>3
  <2>5. NetProfit(c) \in Int
    <3> DEFINE raw == Exit(c).raw
    <3>1. raw \in Int /\ entry \in Int /\ Sign(c.side) \in {1, -1} BY <1>4, <2>4 DEF Sign
    <3>2. NetProfit(c) = Sign(c.side) * (raw - entry) - PullbackSlip - PullbackCost BY <1>5
    <3> HIDE DEF raw
    <3>3. Sign(c.side) * (raw - entry) \in Int BY <3>1
    <3> QED BY <1>0, <3>2, <3>3
  <2>6. ASSUME last > c.bar + 1
        PROVE  NetProfit(c) >= - (c.risk + PullbackSlip + PullbackCost)
    <3>1. last \in (c.bar + 2) .. last BY <1>0, <1>1, <2>6
    <3>2. ~ StopHit(c, last) BY <2>2, <3>1
    <3>3. frame[last].l \in Int /\ frame[last].h \in Int /\ frame[last].l <= Exit(c).raw /\ Exit(c).raw <= frame[last].h
      BY <1>0, <2>1, <2>3
    <3>4. CASE c.side = "BUY"
      <4>1. frame[last].l > entry - c.risk BY <1>0, <1>4, <3>2, <3>3, <3>4 DEF StopHit
      <4>2. NetProfit(c) = Exit(c).raw - entry - PullbackSlip - PullbackCost BY <1>0, <1>4, <1>5, <2>4, <3>4 DEF Sign
      <4>3. \A e, x, l \in Int : \A r, s, k \in Nat : l <= x /\ l > e - r => x - e - s - k >= - (r + s + k) OBVIOUS
      <4>4. entry \in Int /\ frame[last].l \in Int /\ frame[last].h \in Int BY <1>4, <3>3
      <4> QED BY <1>0, <2>4, <3>3, <4>1, <4>2, <4>3, <4>4
    <3>5. CASE c.side = "SELL"
      <4>1. frame[last].h < entry + c.risk BY <1>0, <1>4, <3>2, <3>3, <3>5 DEF StopHit
      <4>2. NetProfit(c) = entry - Exit(c).raw - PullbackSlip - PullbackCost BY <1>0, <1>4, <1>5, <2>4, <3>5 DEF Sign
      <4>3. \A e, x, h \in Int : \A r, s, k \in Nat : x <= h /\ h < e + r => e - x - s - k >= - (r + s + k) OBVIOUS
      <4>4. entry \in Int /\ frame[last].l \in Int /\ frame[last].h \in Int BY <1>4, <3>3
      <4> QED BY <1>0, <2>4, <3>3, <4>1, <4>2, <4>3, <4>4
    <3> QED BY <1>0, <3>4, <3>5 DEF Sides
  <2> HIDE DEF touched
  <2> QED BY <1>0, <1>1, <2>1, <2>2, <2>5, <2>6 DEF Outcomes, n
<1>7. CASE touched # {}
  <2>1. first \in (c.bar + 2) .. last /\ first \in Int BY <1>0, <1>1, <1>2, <1>7
  <2>2. \A i \in (c.bar + 2) .. first : StopHit(c, i) => i = first
    <3> TAKE i \in (c.bar + 2) .. first
    <3> HAVE StopHit(c, i)
    <3>1. i \in (c.bar + 2) .. last BY <1>0, <1>1, <2>1
    <3>2. i \in touched BY <3>1
    <3>3. first <= i BY <1>2, <3>2
    <3> QED BY <1>0, <2>1, <3>3
  <2> HIDE DEF touched
  <2>3. CASE StopHit(c, first)
    <3>1. Exit(c).bar = first /\ Exit(c).raw = StopPrice(c) /\ Exit(c).outcome = "STOP" BY <1>3, <1>7, <2>3
    <3>2. NetProfit(c) = - c.risk - PullbackSlip - PullbackCost
      <4>1. CASE c.side = "BUY"
        <5>1. Exit(c).raw = entry - c.risk BY <1>4, <3>1, <4>1
        <5> QED BY <1>0, <1>4, <1>5, <4>1, <5>1 DEF Sign
      <4>2. CASE c.side = "SELL"
        <5>1. Exit(c).raw = entry + c.risk BY <1>4, <3>1, <4>2
        <5> QED BY <1>0, <1>4, <1>5, <4>2, <5>1 DEF Sign
      <4> QED BY <1>0, <4>1, <4>2 DEF Sides
    <3>3. NetProfit(c) \in Int /\ NetProfit(c) >= - (c.risk + PullbackSlip + PullbackCost)
      <4>1. \A r, s, k \in Nat : - r - s - k \in Int /\ - r - s - k >= - (r + s + k) OBVIOUS
      <4> QED BY <1>0, <3>2, <4>1
    <3>4. first \in Nat /\ c.bar + 1 <= first /\ first <= n BY <1>0, <1>1, <2>1
    <3>5. Exit(c).outcome \in Outcomes BY <3>1 DEF Outcomes
    <3> QED BY <2>2, <3>1, <3>3, <3>4, <3>5 DEF n
  <2>4. CASE ~ StopHit(c, first)
    <3>1. Exit(c).bar = first /\ Exit(c).raw = TargetPrice(c) /\ Exit(c).outcome = "TARGET" BY <1>3, <1>7, <2>4
    <3>2. NetProfit(c) = c.risk * config.ratio - PullbackSlip - PullbackCost
      <4>1. CASE c.side = "BUY"
        <5>1. Exit(c).raw = entry + c.risk * config.ratio BY <1>4, <3>1, <4>1
        <5> QED BY <1>0, <1>4, <1>5, <4>1, <5>1 DEF Sign
      <4>2. CASE c.side = "SELL"
        <5>1. Exit(c).raw = entry - c.risk * config.ratio BY <1>4, <3>1, <4>2
        <5> QED BY <1>0, <1>4, <1>5, <4>2, <5>1 DEF Sign
      <4> QED BY <1>0, <4>1, <4>2 DEF Sides
    <3>3. NetProfit(c) \in Int /\ NetProfit(c) >= - (c.risk + PullbackSlip + PullbackCost)
      <4>1. \A g, r, s, k \in Nat : g - s - k \in Int /\ g - s - k >= - (r + s + k) OBVIOUS
      <4> DEFINE gain == c.risk * config.ratio
      <4>2. gain \in Nat /\ NetProfit(c) = gain - PullbackSlip - PullbackCost BY <1>4, <3>2
      <4> HIDE DEF gain
      <4> QED BY <1>0, <4>1, <4>2
    <3>4. \A i \in (c.bar + 2) .. first : ~ StopHit(c, i) BY <2>2, <2>4
    <3>5. first \in Nat /\ c.bar + 1 <= first /\ first <= n BY <1>0, <1>1, <2>1
    <3>6. Exit(c).outcome \in Outcomes BY <3>1 DEF Outcomes
    <3> QED BY <3>1, <3>3, <3>4, <3>5, <3>6 DEF n
  <2> QED BY <2>3, <2>4
<1> QED BY <1>6, <1>7


\* What the frame alone decides stays what it is.
LEMMA HitsStay ==
  ASSUME UNCHANGED <<config, frame>>
  PROVE  /\ \A c, i : StopHit(c, i)' <=> StopHit(c, i)
         /\ \A side, rsi : InZone(side, rsi)' <=> InZone(side, rsi)
<1>1. \A c : StopPrice(c)' = StopPrice(c) BY DEF StopPrice, EntryPrice, Sign
<1> QED BY <1>1 DEF StopHit, InZone

LEMMA FrameEndsStep ==
  ASSUME PullbackInv, FrameEnds
  PROVE  PullbackInv'
<1>0. /\ UNCHANGED <<config, frame, arm, occupied, pTrades>> /\ pulling' = "trades" /\ pending' = candidates'
      /\ (candidates' = <<>> \/ candidates' = candidates) /\ pulling = "bars"
  BY DEF FrameEnds
<1>1. pTrades = <<>> /\ occupied = 0 BY <1>0 DEF PullbackInv, DealtAreCovered
<1>2. candidates \in Seq(Found) /\ candidates' \in Seq(Found)
  <2>1. candidates \in Seq(Found) BY DEF PullbackInv, PullbackTypes
  <2>2. <<>> \in Seq(Found) OBVIOUS
  <2> QED BY <1>0, <2>1, <2>2
<1>3. PullbackTypes' BY <1>0, <1>2 DEF PullbackInv, PullbackTypes
<1>4. ArmsAreFresh' BY <1>0, HitsStay DEF PullbackInv, ArmsAreFresh, InZone
<1>5. CandidatesAreOrdered' BY <1>0 DEF PullbackInv, CandidatesAreOrdered
<1>6. DealtAreCovered'
  <2>1. Len(pending') = Len(candidates') /\ Len(candidates') \in Nat BY <1>0, <1>2
  <2>2. Dealt' = 0 BY <2>1 DEF Dealt
  <2>3. \A i \in 1 .. Len(pending') : pending'[i] = candidates'[0 + i] BY <1>0, <2>1
  <2> QED BY <1>0, <1>1, <2>1, <2>2, <2>3 DEF DealtAreCovered
<1>7. SetupsAreUsedOnce' BY <1>0, HitsStay DEF PullbackInv, PullbackIsSound, SetupsAreUsedOnce
<1>8. StopBoundsTheLoss' BY <1>0, <1>1 DEF StopBoundsTheLoss
<1>9. OnePositionAtATime'
  <2>1. pending' = <<>> => candidates' = <<>> BY <1>0
  <2> QED BY <1>0, <1>1, <2>1 DEF OnePositionAtATime
<1> QED BY <1>3, <1>4, <1>5, <1>6, <1>7, <1>8, <1>9 DEF PullbackInv, PullbackIsSound

LEMMA TradeCandidateStep ==
  ASSUME PullbackInv, TradeCandidate
  PROVE  PullbackInv'
<1> DEFINE c == Head(pending)
           d == Dealt
           t == [of |-> c, entry |-> c.bar + 1, exit |-> Exit(c).bar, outcome |-> Exit(c).outcome, net |-> NetProfit(c)]
<1>0. /\ UNCHANGED <<config, frame, pulling, arm, candidates>> /\ pulling = "trades" /\ pending # <<>> /\ pending' = Tail(pending)
      /\ \/ Skipped(c) /\ UNCHANGED <<occupied, pTrades>>
         \/ ~ Skipped(c) /\ pTrades' = Append(pTrades, t) /\ occupied' = Exit(c).bar
  BY DEF TradeCandidate
<1>1. /\ PullbackTypes /\ ArmsAreFresh /\ CandidatesAreOrdered /\ DealtAreCovered
      /\ SetupsAreUsedOnce /\ StopBoundsTheLoss /\ OnePositionAtATime
  BY DEF PullbackInv, PullbackIsSound
<1>2. /\ pending \in Seq(Found) /\ candidates \in Seq(Found) /\ occupied \in Nat /\ Len(frame) \in Nat
      /\ Len(pending) \in Nat \ {0} /\ Len(candidates) \in Nat
      /\ pending' \in Seq(Found) /\ Len(pending') = Len(pending) - 1
      /\ \A i \in 1 .. Len(pending') : pending'[i] = pending[i + 1]
  <2>1. pending \in Seq(Found) /\ candidates \in Seq(Found) /\ occupied \in Nat /\ frame \in Seq(PullbackBars)
    BY <1>1 DEF PullbackTypes
  <2> QED BY <1>0, <2>1
<1>3. /\ Len(pending) <= Len(candidates) /\ \A i \in 1 .. Len(pending) : pending[i] = candidates[d + i]
      /\ \A j \in 1 .. d : candidates[j].bar < Len(frame) =>
            \E i \in 1 .. Len(pTrades) : pTrades[i].entry <= candidates[j].bar + 1 /\ candidates[j].bar + 1 <= pTrades[i].exit
      /\ occupied # 0 => \E i \in 1 .. Len(pTrades) : pTrades[i].exit = occupied
      /\ \A i \in 1 .. Len(pTrades) :
            /\ pTrades[i].exit <= occupied /\ pTrades[i].entry = pTrades[i].of.bar + 1
            /\ \A j \in 1 .. Len(pending) : pTrades[i].entry <= pending[j].bar + 1
  BY <1>0, <1>1 DEF DealtAreCovered
<1>4. /\ d \in Nat /\ d = Len(candidates) - Len(pending) /\ d + 1 \in 1 .. Len(candidates)
      /\ Dealt' = d + 1
  <2>1. d = Len(candidates) - Len(pending) /\ Dealt' = Len(candidates') - Len(pending') BY DEF Dealt
  <2> HIDE DEF d
  <2> QED BY <1>0, <1>2, <1>3, <2>1
<1> HIDE DEF d
<1>5. c = candidates[d + 1] /\ c = pending[1] /\ c \in Found /\ c.bar \in Nat /\ c.bar <= Len(frame)
  <2>1. c = pending[1] /\ pending[1] \in Found BY <1>2
  <2>2. c = candidates[d + 1] BY <1>2, <1>3, <2>1
  <2> HIDE DEF c
  <2> QED BY <1>1, <1>4, <2>1, <2>2 DEF CandidatesAreOrdered, Found
<1> DEFINE Rec == [of : Found, entry : Nat, exit : Nat, outcome : Outcomes, net : Int]
<1>6. /\ pTrades \in Seq(Rec) /\ Len(pTrades) \in Nat /\ DOMAIN pTrades = 1 .. Len(pTrades)
      /\ \A i \in 1 .. Len(pTrades) : pTrades[i].entry \in Nat /\ pTrades[i].exit \in Nat /\ pTrades[i].of \in Found
  <2>1. pTrades \in Seq(Rec) BY <1>1 DEF PullbackTypes
  <2> HIDE DEF Rec
  <2>2. /\ Len(pTrades) \in Nat /\ DOMAIN pTrades = 1 .. Len(pTrades)
        /\ \A i \in 1 .. Len(pTrades) : pTrades[i] \in Rec
    BY <2>1
  <2> QED BY <2>1, <2>2 DEF Rec
<1> HIDE DEF c
<1>7. \A j \in 1 .. Len(candidates) : candidates[j] \in Found /\ candidates[j].bar \in Nat
  <2>1. \A j \in 1 .. Len(candidates) : candidates[j] \in Found BY <1>2
  <2> QED BY <2>1 DEF Found
<1>8. \A j \in 1 .. Len(pending') : pending'[j] = candidates[d + 1 + j] /\ c.bar < pending'[j].bar /\ pending'[j].bar \in Nat
  <2> TAKE j \in 1 .. Len(pending')
  <2>1. j + 1 \in 1 .. Len(pending) /\ pending'[j] = pending[j + 1] /\ d + (j + 1) = d + 1 + j BY <1>2, <1>4
  <2>2. pending'[j] = candidates[d + 1 + j] BY <1>3, <2>1
  <2>3. d + 1 + j \in 1 .. Len(candidates) /\ d + 1 < d + 1 + j BY <1>2, <1>4
  <2> QED BY <1>1, <1>4, <1>5, <1>7, <2>2, <2>3 DEF CandidatesAreOrdered
<1>9. ArmsAreFresh' /\ CandidatesAreOrdered' /\ SetupsAreUsedOnce'
  BY <1>0, <1>1, HitsStay DEF ArmsAreFresh, CandidatesAreOrdered, SetupsAreUsedOnce, InZone
\* The trades after the step, when the candidates dealt with are covered.
<1>10. ASSUME DealtAreCovered', pTrades' \in Seq(Rec), occupied' \in Nat, StopBoundsTheLoss',
              \A i, j \in 1 .. Len(pTrades') : i < j => pTrades'[i].exit < pTrades'[j].entry
       PROVE  PullbackInv'
  <2>1. PullbackTypes' BY <1>0, <1>1, <1>2, <1>10 DEF PullbackTypes
  <2>2. DOMAIN pTrades' = 1 .. Len(pTrades') BY <1>10
  <2>3. DOMAIN candidates = 1 .. Len(candidates) BY <1>2
  <2>4. ASSUME pending' = <<>>
        PROVE  \A j \in 1 .. Len(candidates) : candidates[j].bar < Len(frame) =>
                 \E i \in 1 .. Len(pTrades') : pTrades'[i].entry <= candidates[j].bar + 1 /\ candidates[j].bar + 1 <= pTrades'[i].exit
    <3>0. Len(pending') = 0 /\ Len(candidates) - 0 = Len(candidates) BY <1>2, <2>4
    <3>1. Dealt' = Len(candidates)
      <4>1. Dealt' = Len(candidates) - Len(pending') BY <1>0 DEF Dealt
      <4> QED BY <3>0, <4>1
    <3> QED BY <1>0, <1>10, <3>1 DEF DealtAreCovered
  <2>5. OnePositionAtATime' BY <1>0, <1>10, <2>2, <2>3, <2>4 DEF OnePositionAtATime
  <2> QED BY <1>9, <1>10, <2>1, <2>5 DEF PullbackInv, PullbackIsSound
<1>11. CASE Skipped(c) /\ UNCHANGED <<occupied, pTrades>>
  <2>1. c.bar < Len(frame) => \E i \in 1 .. Len(pTrades) : pTrades[i].entry <= c.bar + 1 /\ c.bar + 1 <= pTrades[i].exit
    <3> HAVE c.bar < Len(frame)
    <3>1. c.bar + 1 <= occupied BY <1>2, <1>5, <1>11 DEF Skipped
    <3>2. PICK i \in 1 .. Len(pTrades) : pTrades[i].exit = occupied BY <1>2, <1>3, <1>5, <3>1
    <3>3. 1 \in 1 .. Len(pending) BY <1>2
    <3>4. pTrades[i].entry <= c.bar + 1 BY <1>3, <1>5, <3>2, <3>3
    <3> QED BY <3>1, <3>2, <3>4
  <2>2. DealtAreCovered'
    <3>1. Len(pending') <= Len(candidates) BY <1>2, <1>3
    <3>2. \A j \in 1 .. (d + 1) : candidates[j].bar < Len(frame) =>
            \E i \in 1 .. Len(pTrades) : pTrades[i].entry <= candidates[j].bar + 1 /\ candidates[j].bar + 1 <= pTrades[i].exit
      <4> TAKE j \in 1 .. (d + 1)
      <4>1. CASE j = d + 1 BY <1>5, <2>1, <4>1
      <4>2. CASE j # d + 1
        <5>1. j \in 1 .. d BY <1>4, <4>2
        <5> QED BY <1>3, <5>1
      <4> QED BY <4>1, <4>2
    <3>3. \A i \in 1 .. Len(pTrades) : \A j \in 1 .. Len(pending') : pTrades[i].entry <= pending'[j].bar + 1
      <4> TAKE i \in 1 .. Len(pTrades)
      <4> TAKE j \in 1 .. Len(pending')
      <4>1. j + 1 \in 1 .. Len(pending) /\ pending'[j] = pending[j + 1] BY <1>2
      <4> QED BY <1>3, <4>1
    <3> QED BY <1>0, <1>3, <1>4, <1>8, <1>11, <3>1, <3>2, <3>3 DEF DealtAreCovered
  <2>3. StopBoundsTheLoss' BY <1>0, <1>1, <1>11, HitsStay DEF StopBoundsTheLoss
  <2>4. \A i, j \in 1 .. Len(pTrades) : i < j => pTrades[i].exit < pTrades[j].entry BY <1>1, <1>6 DEF OnePositionAtATime
  <2> QED BY <1>2, <1>6, <1>10, <1>11, <2>2, <2>3, <2>4
<1>12. CASE ~ Skipped(c) /\ pTrades' = Append(pTrades, t) /\ occupied' = Exit(c).bar
  <2>1. c.bar + 1 <= Len(frame) /\ occupied < c.bar + 1 BY <1>2, <1>5, <1>12 DEF Skipped
  <2>2. /\ Exit(c).bar \in Nat /\ c.bar + 1 <= Exit(c).bar /\ Exit(c).bar <= Len(frame)
        /\ Exit(c).outcome \in Outcomes /\ NetProfit(c) \in Int
        /\ \A i \in (c.bar + 2) .. Exit(c).bar : StopHit(c, i) => i = Exit(c).bar /\ Exit(c).outcome = "STOP"
        /\ Exit(c).bar > c.bar + 1 => NetProfit(c) >= - (c.risk + PullbackSlip + PullbackCost)
    BY <1>1, <1>5, <2>1, ExitIs
  <2>3. t \in Rec /\ t.of = c /\ t.entry = c.bar + 1 /\ t.exit = Exit(c).bar /\ t.outcome = Exit(c).outcome /\ t.net = NetProfit(c)
    BY <1>5, <2>2
  <2> DEFINE m == Len(pTrades)
  <2> HIDE DEF t, Rec
  <2>4. /\ pTrades' \in Seq(Rec) /\ Len(pTrades') = m + 1 /\ pTrades'[m + 1] = t
        /\ \A i \in 1 .. m : pTrades'[i] = pTrades[i]
        /\ m \in Nat
    BY <1>6, <1>12, <2>3
  <2> HIDE DEF m
  <2>5. \A i \in 1 .. m : /\ pTrades[i].entry \in Nat /\ pTrades[i].exit \in Nat /\ pTrades[i].exit <= occupied
                          /\ pTrades[i].entry = pTrades[i].of.bar + 1
    BY <1>3, <1>6 DEF m
  <2>6. DealtAreCovered'
    <3>1. Len(pending') <= Len(candidates) BY <1>2, <1>3
    <3>2. \A j \in 1 .. (d + 1) : candidates[j].bar < Len(frame) =>
            \E i \in 1 .. (m + 1) : pTrades'[i].entry <= candidates[j].bar + 1 /\ candidates[j].bar + 1 <= pTrades'[i].exit
      <4> TAKE j \in 1 .. (d + 1)
      <4> HAVE candidates[j].bar < Len(frame)
      <4>1. CASE j = d + 1
        <5>1. m + 1 \in 1 .. (m + 1) BY <2>4
        <5>2. candidates[j] = c BY <1>5, <4>1
        <5>3. pTrades'[m + 1].entry = c.bar + 1 /\ pTrades'[m + 1].exit = Exit(c).bar BY <2>3, <2>4
        <5>4. pTrades'[m + 1].entry <= candidates[j].bar + 1 /\ candidates[j].bar + 1 <= pTrades'[m + 1].exit
          BY <1>5, <2>2, <5>2, <5>3
        <5> QED BY <5>1, <5>4
      <4>2. CASE j # d + 1
        <5>1. j \in 1 .. d BY <1>4, <4>2
        <5>2. PICK i \in 1 .. m : pTrades[i].entry <= candidates[j].bar + 1 /\ candidates[j].bar + 1 <= pTrades[i].exit
          BY <1>3, <5>1 DEF m
        <5>3. i \in 1 .. (m + 1) /\ pTrades'[i] = pTrades[i] BY <2>4
        <5> QED BY <5>2, <5>3
      <4> QED BY <4>1, <4>2
    <3>3. \A i \in 1 .. (m + 1) :
            /\ pTrades'[i].exit <= occupied' /\ pTrades'[i].entry = pTrades'[i].of.bar + 1
            /\ \A j \in 1 .. Len(pending') : pTrades'[i].entry <= pending'[j].bar + 1
      <4> TAKE i \in 1 .. (m + 1)
      <4>1. CASE i = m + 1
        <5>1. \A j \in 1 .. Len(pending') : c.bar + 1 <= pending'[j].bar + 1 BY <1>5, <1>8
        <5> QED BY <1>12, <2>2, <2>3, <2>4, <4>1, <5>1
      <4>2. CASE i # m + 1
        <5>1. i \in 1 .. m /\ pTrades'[i] = pTrades[i] BY <2>4, <4>2
        <5>2. pTrades[i].exit <= occupied'
          <6>1. occupied \in Nat /\ c.bar \in Nat BY <1>2, <1>5
          <6>2. occupied' = Exit(c).bar BY <1>12
          <6>3. pTrades[i].exit \in Nat /\ pTrades[i].exit <= occupied BY <2>5, <5>1
          <6> QED BY <2>1, <2>2, <6>1, <6>2, <6>3
        <5>3. \A j \in 1 .. Len(pending') : pTrades[i].entry <= pending'[j].bar + 1
          <6> TAKE j \in 1 .. Len(pending')
          <6>1. j + 1 \in 1 .. Len(pending) /\ pending'[j] = pending[j + 1] BY <1>2
          <6> QED BY <1>3, <5>1, <6>1 DEF m
        <5> QED BY <2>5, <5>1, <5>2, <5>3
      <4> QED BY <4>1, <4>2
    <3>4. \E i \in 1 .. (m + 1) : pTrades'[i].exit = occupied'
      <4>1. m + 1 \in 1 .. (m + 1) BY <2>4
      <4> QED BY <1>12, <2>3, <2>4, <4>1
    <3> QED BY <1>0, <1>4, <1>8, <2>4, <3>1, <3>2, <3>3, <3>4 DEF DealtAreCovered
  <2>7. StopBoundsTheLoss'
    <3>1. DOMAIN pTrades' = 1 .. (m + 1) /\ DOMAIN pTrades = 1 .. m BY <1>6, <2>4 DEF m
    <3> SUFFICES ASSUME NEW j \in 1 .. (m + 1)
                 PROVE  /\ \A i \in (pTrades'[j].entry + 1) .. pTrades'[j].exit :
                               StopHit(pTrades'[j].of, i) => i = pTrades'[j].exit /\ pTrades'[j].outcome = "STOP"
                        /\ pTrades'[j].exit > pTrades'[j].entry =>
                               pTrades'[j].net >= - (pTrades'[j].of.risk + PullbackSlip + PullbackCost)
      BY <1>0, <3>1, HitsStay DEF StopBoundsTheLoss, StopHit, StopPrice, EntryPrice
    <3>2. CASE j = m + 1
      <4>1. c.bar + 1 + 1 = c.bar + 2 BY <1>5
      <4>2. pTrades'[j] = t BY <2>4, <3>2
      <4> QED BY <2>2, <2>3, <4>1, <4>2
    <3>3. CASE j # m + 1
      <4>1. j \in 1 .. m /\ pTrades'[j] = pTrades[j] BY <2>4, <3>3
      <4> QED BY <1>1, <3>1, <4>1 DEF StopBoundsTheLoss
    <3> QED BY <3>2, <3>3
  <2>8. \A i, j \in 1 .. (m + 1) : i < j => pTrades'[i].exit < pTrades'[j].entry
    <3> TAKE i, j \in 1 .. (m + 1)
    <3> HAVE i < j
    <3>1. i \in 1 .. m /\ pTrades'[i] = pTrades[i] BY <2>4
    <3>2. CASE j = m + 1 BY <1>2, <1>5, <2>1, <2>3, <2>4, <2>5, <3>1, <3>2
    <3>3. CASE j # m + 1
      <4>1. j \in 1 .. m /\ pTrades'[j] = pTrades[j] BY <2>4, <3>3
      <4> QED BY <1>1, <1>6, <3>1, <4>1 DEF OnePositionAtATime, m
    <3> QED BY <3>2, <3>3
  <2> QED BY <1>10, <1>12, <2>2, <2>4, <2>6, <2>7, <2>8
<1> QED BY <1>0, <1>11, <1>12

\* Whatever the bars are: every signal of the crypto pullback has a setup of its own,
\* used once; no trade goes past a bar that touches its stop, so none loses more than
\* its risk, slippage and cost; one position at a time, and no signal is passed over
\* without one.
THEOREM PullbackBacktestIsSound == PullbackSpec => []PullbackIsSound
<1>1. PullbackInit => PullbackInv
  <2> SUFFICES ASSUME PullbackInit PROVE PullbackInv OBVIOUS
  <2>1. PullbackTypes BY DEF PullbackInit, PullbackTypes
  <2>2. ArmsAreFresh BY DEF PullbackInit, ArmsAreFresh
  <2>3. CandidatesAreOrdered /\ DealtAreCovered BY DEF PullbackInit, CandidatesAreOrdered, DealtAreCovered
  <2>4. PullbackIsSound
    BY DEF PullbackInit, PullbackIsSound, SetupsAreUsedOnce, StopBoundsTheLoss, OnePositionAtATime
  <2> QED BY <2>1, <2>2, <2>3, <2>4 DEF PullbackInv
<1>2. PullbackInv /\ [PullbackNext]_pullbackVars => PullbackInv'
  <2> SUFFICES ASSUME PullbackInv, [PullbackNext]_pullbackVars PROVE PullbackInv' OBVIOUS
  <2>1. CASE UNCHANGED pullbackVars
    <3>1. PullbackTypes' /\ ArmsAreFresh' /\ CandidatesAreOrdered' /\ DealtAreCovered'
      BY <2>1 DEF pullbackVars, PullbackInv, PullbackTypes, ArmsAreFresh, CandidatesAreOrdered, DealtAreCovered, Dealt, InZone
    <3>2. SetupsAreUsedOnce' /\ OnePositionAtATime'
      BY <2>1 DEF pullbackVars, PullbackInv, PullbackIsSound, SetupsAreUsedOnce, OnePositionAtATime, InZone
    <3>3. StopBoundsTheLoss'
      BY <2>1, HitsStay DEF pullbackVars, PullbackInv, PullbackIsSound, StopBoundsTheLoss
    <3> QED BY <3>1, <3>2, <3>3 DEF PullbackInv, PullbackIsSound
  <2>2. CASE FrameEnds BY <2>2, FrameEndsStep
  <2>3. CASE TradeCandidate BY <2>3, TradeCandidateStep
  <2>4. CASE \E bar \in PullbackBars : NextFrameBar(bar) BY <2>4, NextBarStep
  <2> QED BY <2>1, <2>2, <2>3, <2>4 DEF PullbackNext
<1>3. PullbackInv => PullbackIsSound BY DEF PullbackInv
<1> QED BY <1>1, <1>2, <1>3, PTL DEF PullbackSpec
-----------------------------------------------------------------------------
(* Research plans: the folds of a validation test on unseen sessions, and  *)
(* the winner of a fold is its best candidate.                             *)

LEMMA SessionsAreDays ==
  ASSUME NEW req \in PlanRequests
  PROVE  Sessions(req) \in SUBSET Int /\ IsFiniteSet(Sessions(req))
<1> DEFINE range == req.start .. req.end
<1>1. req.start \in Int /\ req.end \in Int BY PlanRequestsAreValid
<1>2. IsFiniteSet(range) /\ range \in SUBSET Int BY <1>1, FS_Interval
<1>3. Sessions(req) \in SUBSET range BY DEF Sessions
<1> HIDE DEF range
<1> QED BY <1>2, <1>3, FS_Subset

\* Days in order: each once, the earlier the lower its place.
LEMMA DaysInOrder ==
  ASSUME NEW days \in SUBSET Int, IsFiniteSet(days)
  PROVE  /\ \A i \in 1 .. Cardinality(days) : Ascending(days)[i] \in days
         /\ \A i, j \in 1 .. Cardinality(days) : i < j => Ascending(days)[i] < Ascending(days)[j]
         /\ \A d \in days : \E i \in 1 .. Cardinality(days) : Ascending(days)[i] = d
<1> DEFINE N == Cardinality(days)
           f == [d \in days |-> d]
           place(d) == Cardinality({e \in days : e <= d})
           keyed(d) == RankOf(days, f, d)
           s == Ascending(days)
<1>1. /\ \A d \in days : keyed(d) \in 1 .. N
      /\ \A d, e \in days : f[d] < f[e] => keyed(d) < keyed(e)
      /\ \A i \in 1 .. N : \E d \in days : keyed(d) = i
  <2>1. (\A d \in days : f[d] \in Int) /\ \A d, e \in days : f[d] = f[e] => d = e OBVIOUS
  <2> HIDE DEF f
  <2> QED BY <2>1, RanksByKey
<1>2. \A d \in days : f[d] = d OBVIOUS
<1>3. \A d \in days : keyed(d) = place(d)
  <2> HIDE DEF f
  <2> TAKE d \in days
  <2>1. {e \in days : f[e] <= f[d]} = {e \in days : e <= d} BY <1>2
  <2> QED BY <2>1 DEF RankOf
<1>4. s = [i \in 1 .. N |-> CHOOSE d \in days : place(d) = i] BY DEF Ascending
<1>5. N \in Nat BY FS_CardinalityType
<1> HIDE DEF f, place, keyed, s, N
<1>6. \A i \in 1 .. N : s[i] \in days /\ place(s[i]) = i
  <2> TAKE i \in 1 .. N
  <2>1. \E d \in days : place(d) = i BY <1>1, <1>3
  <2>2. s[i] = CHOOSE d \in days : place(d) = i BY <1>4
  <2> QED BY <2>1, <2>2
<1>7. ASSUME NEW i \in 1 .. N, NEW j \in 1 .. N, i < j PROVE s[i] < s[j]
  <2>1. s[i] \in days /\ s[j] \in days /\ place(s[i]) = i /\ place(s[j]) = j BY <1>6
  <2>2. s[i] \in Int /\ s[j] \in Int BY <2>1
  <2>5. i \in Int /\ j \in Int BY <1>5
  <2>3. ~ (s[j] < s[i])
    <3> SUFFICES ASSUME s[j] < s[i] PROVE FALSE OBVIOUS
    <3>1. \A d, e \in days : d < e => place(d) < place(e) BY <1>1, <1>2, <1>3
    <3>2. place(s[j]) < place(s[i]) BY <2>1, <3>1
    <3>3. j < i BY <2>1, <3>2
    <3> QED BY <1>7, <2>5, <3>3
  <2>4. s[j] # s[i] BY <1>7, <2>1, <2>2
  <2> QED BY <2>2, <2>3, <2>4
<1>8. ASSUME NEW d \in days PROVE \E i \in 1 .. N : s[i] = d
  <2>1. place(d) \in 1 .. N BY <1>1, <1>3
  <2>2. s[place(d)] \in days /\ place(s[place(d)]) = place(d) BY <1>6, <2>1
  <2>3. s[place(d)] = d
    <3> DEFINE e == s[place(d)]
    <3>1. e \in days /\ place(e) = place(d) BY <2>2
    <3> HIDE DEF e
    <3>2. e \in Int /\ d \in Int BY <3>1
    <3>3. ~ (e < d) /\ ~ (d < e)
      <4>1. place(d) \in Int BY <1>5, <2>1
      <4>2. ~ (place(e) < place(d)) /\ ~ (place(d) < place(e)) BY <3>1, <4>1
      <4> QED BY <1>1, <1>2, <1>3, <3>1, <4>2
    <3>4. e = d BY <3>2, <3>3
    <3> QED BY <3>4 DEF e
  <2> QED BY <2>1, <2>3
<1> QED BY <1>6, <1>7, <1>8 DEF s, N

\* The sessions between two of them are as many as their places say.
LEMMA SessionsBetween ==
  ASSUME NEW days \in SUBSET Int, IsFiniteSet(days),
         NEW a \in 1 .. Cardinality(days), NEW b \in 1 .. Cardinality(days), a <= b
  PROVE  Cardinality({d \in days : Ascending(days)[a] <= d /\ d <= Ascending(days)[b]}) = b - a + 1
<1> DEFINE N == Cardinality(days)
           s == Ascending(days)
           S == {d \in days : s[a] <= d /\ d <= s[b]}
           n == b - a + 1
<1>1. N \in Nat BY FS_CardinalityType
<1>2. /\ \A i \in 1 .. N : s[i] \in days
      /\ \A i, j \in 1 .. N : i < j => s[i] < s[j]
      /\ \A d \in days : \E i \in 1 .. N : s[i] = d
  BY DaysInOrder
<1>3. a \in 1 .. N /\ b \in 1 .. N OBVIOUS
<1> HIDE DEF s, N
<1> DEFINE f == [d \in S |-> (CHOOSE i \in 1 .. N : s[i] = d) - a + 1]
<1>4. n \in Nat BY <1>1, <1>3
<1>5. ASSUME NEW i \in 1 .. N PROVE s[i] \in S <=> i \in a .. b
  <2>1. s[i] \in Int /\ s[a] \in Int /\ s[b] \in Int /\ s[i] \in days BY <1>2, <1>3
  <2>2. i < a => s[i] < s[a] BY <1>2, <1>3
  <2>3. b < i => s[b] < s[i] BY <1>2, <1>3
  <2>4. a < i => s[a] < s[i] BY <1>2, <1>3
  <2>5. i < b => s[i] < s[b] BY <1>2, <1>3
  <2>6. i \in Int /\ a \in Int /\ b \in Int BY <1>1, <1>3
  <2>7. CASE i \in a .. b
    <3>1. s[a] <= s[i] BY <2>1, <2>4, <2>6, <2>7
    <3>2. s[i] <= s[b] BY <2>1, <2>5, <2>6, <2>7
    <3> QED BY <2>1, <2>7, <3>1, <3>2
  <2>8. CASE i \notin a .. b
    <3>1. i < a \/ b < i BY <2>6, <2>8
    <3>2. ~ (s[a] <= s[i] /\ s[i] <= s[b]) BY <2>1, <2>2, <2>3, <3>1
    <3> QED BY <2>8, <3>2
  <2> QED BY <2>7, <2>8
<1>6. ASSUME NEW d \in S PROVE f[d] \in 1 .. n /\ s[f[d] + a - 1] = d /\ f[d] + a - 1 \in a .. b
  <2> DEFINE i == CHOOSE i \in 1 .. N : s[i] = d
  <2>1. i \in 1 .. N /\ s[i] = d BY <1>2
  <2>2. f[d] = i - a + 1 OBVIOUS
  <2> HIDE DEF i, f
  <2>3. i \in a .. b BY <1>5, <2>1
  <2>4. f[d] \in 1 .. n /\ f[d] + a - 1 = i BY <1>1, <1>3, <2>2, <2>3
  <2> QED BY <2>1, <2>3, <2>4
<1>7. ASSUME NEW k \in 1 .. n PROVE \E d \in S : f[d] = k
  <2> DEFINE i == k + a - 1
             d == s[i]
  <2>1. i \in a .. b /\ i \in 1 .. N BY <1>1, <1>3
  <2> HIDE DEF i
  <2>2. d \in S BY <1>5, <2>1
  <2> HIDE DEF d, S, f
  <2>3. f[d] \in 1 .. n /\ s[f[d] + a - 1] = d /\ f[d] + a - 1 \in a .. b BY <1>6, <2>2
  <2> DEFINE j == f[d] + a - 1
  <2>4. j \in 1 .. N /\ s[j] = s[i] BY <1>1, <1>3, <2>3 DEF d
  <2>5. j = i
    <3> HIDE DEF j
    <3>1. s[i] \in Int BY <1>2, <2>1
    <3>2. ~ (i < j) /\ ~ (j < i) BY <1>2, <2>1, <2>4, <3>1
    <3>3. i \in Int /\ j \in Int BY <2>1, <2>4
    <3> QED BY <3>2, <3>3
  <2>6. f[d] \in Int /\ f[d] + a - 1 = k + a - 1 BY <1>4, <2>3, <2>5 DEF i
  <2>7. f[d] = k BY <1>1, <1>3, <1>4, <2>6
  <2> QED BY <2>2, <2>7
<1>8. f \in [S -> 1 .. n] BY <1>6
<1>9. \A x, y \in S : f[x] = f[y] => x = y
  <2> HIDE DEF f, S
  <2> QED BY <1>6
<1>10. Cardinality(S) = n
  <2> HIDE DEF f, S, n
  <2> QED BY <1>4, <1>7, <1>8, <1>9, RanksCount
<1> QED BY <1>10 DEF s

WindowsOf(req) == {req.training, req.testing, req.step, req.maximumFolds} \subseteq Nat \ {0}

\* The folds that are whole are the first ones.
LEMMA WholeFoldsComeFirst ==
  ASSUME NEW T \in Nat, NEW step \in Nat, NEW n \in Nat, NEW most \in Nat,
         NEW i \in 1 .. Cardinality({k \in 0 .. (most - 1) : T + k * step <= n})
  PROVE  T + (i - 1) * step <= n
<1> DEFINE whole == {k \in 0 .. (most - 1) : T + k * step <= n}
           head == 0 .. (i - 2)
<1>1. IsFiniteSet(whole)
  <2> DEFINE all == 0 .. (most - 1)
  <2>1. IsFiniteSet(all)
    <3>1. 0 \in Int /\ most - 1 \in Int OBVIOUS
    <3> QED BY <3>1, FS_Interval
  <2>2. whole \in SUBSET all OBVIOUS
  <2> HIDE DEF all, whole
  <2> QED BY <2>1, <2>2, FS_Subset
<1>2. Cardinality(whole) \in Nat BY <1>1, FS_CardinalityType
<1>3. i \in 1 .. Cardinality(whole) OBVIOUS
<1>4. i \in Nat /\ i >= 1 /\ i <= Cardinality(whole)
  <2> HIDE DEF whole
  <2> QED BY <1>2, <1>3
<1>5. IsFiniteSet(head) /\ Cardinality(head) = i - 1
  <2>1. 0 \in Int /\ i - 2 \in Int BY <1>4
  <2>2. IsFiniteSet(0 .. (i - 2)) /\ Cardinality(0 .. (i - 2)) = IF 0 > i - 2 THEN 0 ELSE (i - 2) - 0 + 1
    BY <2>1, FS_Interval
  <2>3. (IF 0 > i - 2 THEN 0 ELSE (i - 2) - 0 + 1) = i - 1 BY <1>4
  <2> QED BY <2>2, <2>3
<1> SUFFICES ASSUME ~ (T + (i - 1) * step <= n) PROVE FALSE OBVIOUS
<1>6. ASSUME NEW k \in whole PROVE k \in head
  <2>1. k \in Nat /\ T + k * step <= n OBVIOUS
  <2>2. ASSUME k >= i - 1 PROVE FALSE
    <3> DEFINE a == (i - 1) * step
               b == k * step
               m == k - (i - 1)
    <3>1. m \in Nat /\ m * step \in Nat BY <1>4, <2>1, <2>2
    <3>2. b = a + m * step BY <1>4, <2>1
    <3>3. a \in Int /\ b \in Int BY <1>4, <2>1
    <3>4. T + b <= n /\ ~ (T + a <= n) BY <2>1
    <3> HIDE DEF a, b
    <3> QED BY <3>1, <3>2, <3>3, <3>4
  <2> QED BY <1>4, <2>1, <2>2
<1>7. whole \in SUBSET head BY <1>6
<1> HIDE DEF whole, head
<1>8. Cardinality(whole) <= i - 1 BY <1>5, <1>7, FS_Subset
<1> QED BY <1>2, <1>4, <1>8

LEMMA FoldsAreNumbered ==
  ASSUME NEW req \in PlanRequests, WindowsOf(req)
  PROVE  \E N \in Nat : DOMAIN Folds(req) = 1 .. N
<1> DEFINE all == 0 .. (req.maximumFolds - 1)
           whole == {k \in all : req.training + k * req.step + req.testing <= Cardinality(Sessions(req))}
<1>1. IsFiniteSet(all)
  <2>1. 0 \in Int /\ req.maximumFolds - 1 \in Int BY DEF WindowsOf
  <2> QED BY <2>1, FS_Interval
<1>2. whole \in SUBSET all OBVIOUS
<1>3. DOMAIN Folds(req) = 1 .. Cardinality(whole) BY DEF Folds
<1> HIDE DEF whole, all
<1>4. Cardinality(whole) \in Nat BY <1>1, <1>2, FS_Subset, FS_CardinalityType
<1> QED BY <1>3, <1>4

\* The places of the sessions of the i-th fold.
LEMMA PlacesOfFold ==
  ASSUME NEW req \in PlanRequests, WindowsOf(req), NEW i \in DOMAIN Folds(req)
  PROVE  LET n == Cardinality(Sessions(req))
             s == Ascending(Sessions(req))
             back == (i - 1) * req.step
             first == IF req.mode = "ANCHORED" THEN 1 ELSE back + 1
             end == req.training + back
         IN  /\ i \in Nat \ {0} /\ back \in Nat /\ n \in Nat
             /\ first \in 1 .. end /\ end \in Nat /\ end + req.testing <= n
             /\ Folds(req)[i] = [trainingStart |-> s[first], trainingEnd |-> s[end],
                                 testingStart |-> s[end + 1], testingEnd |-> s[end + req.testing]]
<1> DEFINE n == Cardinality(Sessions(req))
           s == Ascending(Sessions(req))
           T == req.training + req.testing
           whole == {k \in 0 .. (req.maximumFolds - 1) : req.training + k * req.step + req.testing <= n}
           total == {k \in 0 .. (req.maximumFolds - 1) : T + k * req.step <= n}
           back == (i - 1) * req.step
           first == IF req.mode = "ANCHORED" THEN 1 ELSE back + 1
           end == req.training + back
<1>1. /\ req.training \in Nat \ {0} /\ req.testing \in Nat \ {0} /\ req.step \in Nat \ {0}
      /\ req.maximumFolds \in Nat \ {0}
  BY DEF WindowsOf
<1>2. n \in Nat BY SessionsAreDays, FS_CardinalityType
<1>3. whole = total
  <2>1. \A k \in 0 .. (req.maximumFolds - 1) : req.training + k * req.step + req.testing = T + k * req.step
    <3> TAKE k \in 0 .. (req.maximumFolds - 1)
    <3> DEFINE x == k * req.step
    <3>1. x \in Int BY <1>1
    <3> HIDE DEF x
    <3>2. req.training + x + req.testing = req.training + req.testing + x BY <1>1, <3>1
    <3> QED BY <3>2 DEF x
  <2> QED BY <2>1
<1>4. Folds(req) = [k \in 1 .. Cardinality(whole) |-> FoldOf(req, s, k - 1)] BY DEF Folds
<1>5. i \in 1 .. Cardinality(total) BY <1>3, <1>4
<1>6. T + (i - 1) * req.step <= n
  <2>1. T \in Nat /\ req.step \in Nat /\ req.maximumFolds \in Nat BY <1>1
  <2> HIDE DEF T, n
  <2> QED BY <1>2, <1>5, <2>1, WholeFoldsComeFirst
<1>7. i \in Nat \ {0}
  <2>1. IsFiniteSet(total)
    <3> DEFINE all == 0 .. (req.maximumFolds - 1)
    <3>1. 0 \in Int /\ req.maximumFolds - 1 \in Int BY <1>1
    <3>2. IsFiniteSet(all) BY <3>1, FS_Interval
    <3>3. total \in SUBSET all OBVIOUS
    <3> HIDE DEF all, total
    <3> QED BY <3>2, <3>3, FS_Subset
  <2>2. Cardinality(total) \in Nat BY <2>1, FS_CardinalityType
  <2> HIDE DEF total
  <2> QED BY <1>5, <2>2
<1>8. back \in Nat BY <1>1, <1>7
<1>9. Folds(req)[i] = [trainingStart |-> s[first], trainingEnd |-> s[end],
                       testingStart |-> s[end + 1], testingEnd |-> s[end + req.testing]]
  <2>1. Folds(req)[i] = FoldOf(req, s, i - 1) BY <1>3, <1>4, <1>5
  <2> QED BY <2>1 DEF FoldOf
<1>10. end \in Nat /\ first \in 1 .. end /\ end + req.testing <= n
  <2>1. T + back <= n BY <1>6
  <2> HIDE DEF back, n
  <2> QED BY <1>1, <1>2, <1>8, <2>1
<1> QED BY <1>2, <1>7, <1>8, <1>9, <1>10

LEMMA FoldsAreUnseen ==
  ASSUME NEW req \in PlanRequests, WindowsOf(req)
  PROVE  TestsAreUnseen(req, Folds(req), Sessions(req))
<1> DEFINE days == Sessions(req)
           n == Cardinality(days)
           s == Ascending(days)
           within(a, b) == {d \in days : a <= d /\ d <= b}
<1>0. /\ req.training \in Nat \ {0} /\ req.testing \in Nat \ {0} /\ req.step \in Nat \ {0}
  BY DEF WindowsOf
<1>1. days \in SUBSET Int /\ IsFiniteSet(days) BY SessionsAreDays
<1> HIDE DEF days
<1>2. /\ \A i \in 1 .. n : s[i] \in days /\ s[i] \in Int
      /\ \A i, j \in 1 .. n : i < j => s[i] < s[j]
      /\ \A d \in days : \E i \in 1 .. n : s[i] = d
  <2>1. /\ \A i \in 1 .. n : s[i] \in days
        /\ \A i, j \in 1 .. n : i < j => s[i] < s[j]
        /\ \A d \in days : \E i \in 1 .. n : s[i] = d
    BY <1>1, DaysInOrder
  <2> HIDE DEF s, n
  <2> QED BY <1>1, <2>1
<1>3. \A a, b \in 1 .. n : a <= b => Cardinality(within(s[a], s[b])) = b - a + 1 BY <1>1, SessionsBetween
<1>4. n \in Nat BY <1>1, FS_CardinalityType
<1> HIDE DEF s, n, within
<1>5. ASSUME NEW i \in DOMAIN Folds(req)
      PROVE  LET f == Folds(req)[i]
             IN  /\ f.trainingEnd < f.testingStart
                 /\ within(f.trainingEnd + 1, f.testingStart - 1) = {}
                 /\ Cardinality(within(f.testingStart, f.testingEnd)) = req.testing
                 /\ Cardinality(within(f.trainingStart, f.trainingEnd))
                      = req.training + (IF req.mode = "ANCHORED" THEN (i - 1) * req.step ELSE 0)
                 /\ i > 1 => Cardinality(within(Folds(req)[i - 1].testingStart, f.testingStart - 1)) = req.step
  <2> DEFINE f == Folds(req)[i]
             back == (i - 1) * req.step
             first == IF req.mode = "ANCHORED" THEN 1 ELSE back + 1
             end == req.training + back
  <2>1. /\ i \in Nat \ {0} /\ back \in Nat /\ first \in 1 .. end /\ end \in Nat /\ end + req.testing <= n
        /\ f = [trainingStart |-> s[first], trainingEnd |-> s[end],
                testingStart |-> s[end + 1], testingEnd |-> s[end + req.testing]]
    BY PlacesOfFold DEF n, s, days
  <2> HIDE DEF f
  <2>2. /\ f.trainingStart = s[first] /\ f.trainingEnd = s[end] /\ f.testingStart = s[end + 1]
        /\ f.testingEnd = s[end + req.testing]
    BY <2>1
  <2> HIDE DEF back, first
  <2>3. /\ first \in 1 .. n /\ end \in 1 .. n /\ end + 1 \in 1 .. n /\ end + req.testing \in 1 .. n
        /\ first <= end /\ end < end + 1 /\ end + 1 <= end + req.testing
    BY <1>0, <1>4, <2>1
  <2>4. f.trainingEnd < f.testingStart BY <1>2, <2>2, <2>3
  <2>5. within(f.trainingEnd + 1, f.testingStart - 1) = {}
    <3> SUFFICES ASSUME NEW d \in within(s[end] + 1, s[end + 1] - 1) PROVE FALSE BY <2>2
    <3>1. d \in days /\ d \in Int /\ s[end] + 1 <= d /\ d <= s[end + 1] - 1 BY <1>1 DEF within
    <3>2. PICK j \in 1 .. n : s[j] = d BY <1>2, <3>1
    <3>3. s[end] \in Int /\ s[end + 1] \in Int BY <1>2, <2>3
    <3>4. s[end] < s[j] /\ s[j] < s[end + 1] BY <3>1, <3>2, <3>3
    <3>5. ~ (j < end) /\ j # end
      <4>1. j < end => s[j] < s[end] BY <1>2, <2>3
      <4>2. s[j] \in Int BY <1>2
      <4> QED BY <3>3, <3>4, <4>1, <4>2
    <3>6. ~ (end + 1 < j) /\ j # end + 1
      <4>1. end + 1 < j => s[end + 1] < s[j] BY <1>2, <2>3
      <4>2. s[j] \in Int BY <1>2
      <4> QED BY <3>3, <3>4, <4>1, <4>2
    <3>7. j \in Int /\ end \in Int BY <1>4, <2>3
    <3> HIDE DEF end
    <3> QED BY <3>5, <3>6, <3>7
  <2>6. Cardinality(within(f.testingStart, f.testingEnd)) = req.testing
    <3>1. Cardinality(within(s[end + 1], s[end + req.testing])) = (end + req.testing) - (end + 1) + 1
      BY <1>3, <2>3
    <3>2. (end + req.testing) - (end + 1) + 1 = req.testing BY <1>0, <2>1
    <3> QED BY <2>2, <3>1, <3>2
  <2>7. Cardinality(within(f.trainingStart, f.trainingEnd))
          = req.training + (IF req.mode = "ANCHORED" THEN back ELSE 0)
    <3>1. Cardinality(within(s[first], s[end])) = end - first + 1 BY <1>3, <2>3
    <3>2. end - first + 1 = req.training + (IF req.mode = "ANCHORED" THEN back ELSE 0)
      <4>1. CASE req.mode = "ANCHORED"
        <5>1. first = 1 BY <4>1 DEF first
        <5> QED BY <1>0, <2>1, <4>1, <5>1
      <4>2. CASE req.mode # "ANCHORED"
        <5>1. first = back + 1 BY <4>2 DEF first
        <5> QED BY <1>0, <2>1, <4>2, <5>1
      <4> QED BY <4>1, <4>2
    <3> QED BY <2>2, <3>1, <3>2
  <2>8. ASSUME i > 1
        PROVE  Cardinality(within(Folds(req)[i - 1].testingStart, f.testingStart - 1)) = req.step
    <3> DEFINE j == i - 1
               past == (j - 1) * req.step
               old == req.training + past
    <3>1. j \in DOMAIN Folds(req)
      <4>1. PICK N \in Nat : DOMAIN Folds(req) = 1 .. N BY FoldsAreNumbered
      <4>2. i \in 1 .. N BY <4>1
      <4>3. j \in 1 .. N BY <2>1, <2>8, <4>2
      <4> QED BY <4>1, <4>3
    <3> HIDE DEF j
    <3>2. /\ j \in Nat \ {0} /\ past \in Nat /\ old \in Nat /\ old + req.testing <= n
          /\ Folds(req)[j].testingStart = s[old + 1]
      <4> DEFINE start == IF req.mode = "ANCHORED" THEN 1 ELSE past + 1
      <4>1. /\ j \in Nat \ {0} /\ past \in Nat /\ old \in Nat /\ old + req.testing <= n
            /\ Folds(req)[j] = [trainingStart |-> s[start], trainingEnd |-> s[old],
                                testingStart |-> s[old + 1], testingEnd |-> s[old + req.testing]]
        BY <3>1, PlacesOfFold DEF n, s, days
      <4> QED BY <4>1
    <3>3. back = past + req.step
      <4>1. i - 1 = (j - 1) + 1 /\ j - 1 \in Int BY <2>1 DEF j
      <4> QED BY <1>0, <4>1 DEF back
    <3> HIDE DEF past
    <3>4. end = old + req.step BY <1>0, <3>2, <3>3
    <3>5. old + 1 \in 1 .. n /\ old + 1 <= end BY <1>0, <1>4, <2>3, <3>2, <3>4
    <3>6. within(s[old + 1], s[end + 1] - 1) = within(s[old + 1], s[end])
      <4>1. s[end] \in Int /\ s[end + 1] \in Int /\ s[end] < s[end + 1] BY <1>2, <2>3
      <4>2. ASSUME NEW d \in days, d <= s[end + 1] - 1 PROVE d <= s[end]
        <5>1. within(s[end] + 1, s[end + 1] - 1) = {} BY <2>2, <2>5
        <5>2. d \in Int BY <1>1
        <5>3. ~ (s[end] + 1 <= d) BY <4>2, <5>1 DEF within
        <5> QED BY <4>1, <5>2, <5>3
      <4>3. \A d \in days : d <= s[end] => d <= s[end + 1] - 1
        <5> TAKE d \in days
        <5>1. d \in Int BY <1>1
        <5> QED BY <4>1, <5>1
      <4> QED BY <4>2, <4>3 DEF within
    <3>7. Cardinality(within(s[old + 1], s[end])) = end - (old + 1) + 1 BY <1>3, <2>3, <3>5
    <3>8. end - (old + 1) + 1 = req.step BY <1>0, <3>2, <3>4
    <3> QED BY <2>2, <3>2, <3>6, <3>7, <3>8 DEF j
  <2> QED BY <2>4, <2>5, <2>6, <2>7, <2>8 DEF f, back
<1> QED BY <1>5 DEF TestsAreUnseen, within, days

\* Cross-multiplied fractions are ordered like the fractions.
LEMMA FractionsAreOrdered ==
  ASSUME NEW p \in Int, NEW q \in Int, NEW r \in Int, NEW x \in Nat, NEW y \in Nat, NEW z \in Nat,
         x > 0, y > 0, z > 0, p * y >= q * x, q * z >= r * y
  PROVE  p * z >= r * x
<1>1. (p * y) * z >= (q * x) * z
  <2> DEFINE a == p * y
             b == q * x
             m == a - b
  <2>1. a \in Int /\ b \in Int /\ m \in Nat OBVIOUS
  <2>2. a * z = b * z + m * z BY <2>1
  <2> HIDE DEF m
  <2>3. m * z \in Nat BY <2>1
  <2>4. a * z \in Int /\ b * z \in Int BY <2>1
  <2> QED BY <2>2, <2>3, <2>4
<1>2. (q * z) * x >= (r * y) * x
  <2> DEFINE a == q * z
             b == r * y
             m == a - b
  <2>1. a \in Int /\ b \in Int /\ m \in Nat OBVIOUS
  <2>2. a * x = b * x + m * x BY <2>1
  <2> HIDE DEF m
  <2>3. m * x \in Nat BY <2>1
  <2>4. a * x \in Int /\ b * x \in Int BY <2>1
  <2> QED BY <2>2, <2>3, <2>4
<1> DEFINE d == p * z
           e == r * x
<1>3. (p * y) * z = d * y /\ (q * x) * z = (q * z) * x /\ (r * y) * x = e * y OBVIOUS
<1>4. d \in Int /\ e \in Int OBVIOUS
<1>5. (q * x) * z \in Int OBVIOUS
<1>6. d * y >= e * y
  <2> DEFINE a == d * y
             b == e * y
             c == (q * x) * z
  <2>1. a >= c /\ c >= b BY <1>1, <1>2, <1>3
  <2>2. a \in Int /\ b \in Int /\ c \in Int BY <1>4, <1>5
  <2> HIDE DEF a, b, c
  <2>3. a >= b BY <2>1, <2>2
  <2> QED BY <2>3 DEF a, b
<1> HIDE DEF d, e
<1>7. d >= e
  <2> SUFFICES ASSUME e - d > 0 PROVE FALSE BY <1>4
  <2> DEFINE m == e - d
  <2>1. m \in Nat /\ m > 0 BY <1>4
  <2>2. e * y = d * y + m * y BY <1>4
  <2> HIDE DEF m
  <2>3. m * y \in Nat /\ m * y > 0 BY <2>1
  <2>4. e * y \in Int /\ d * y \in Int BY <1>4
  <2> QED BY <1>6, <2>2, <2>3, <2>4
<1> QED BY <1>7 DEF d, e

\* No objective prefers in a circle: not being worse is transitive and total.
LEMMA NotWorseIsAnOrder ==
  ASSUME NEW objective, NEW a \in PlanMetrics, NEW b \in PlanMetrics, NEW c \in PlanMetrics
  PROVE  /\ ~ Better(objective, a, a)
         /\ ~ (Better(objective, a, b) /\ Better(objective, b, a))
         /\ ~ Better(objective, b, a) /\ ~ Better(objective, c, b) => ~ Better(objective, c, a)
<1>1. /\ a.pnl \in Int /\ b.pnl \in Int /\ c.pnl \in Int /\ a.wins \in Int /\ b.wins \in Int /\ c.wins \in Int
      /\ a.drawdown \in Nat /\ b.drawdown \in Nat /\ c.drawdown \in Nat
  BY PlanMetricsAreNumbers
<1>2. CASE objective = "NET_PNL" BY <1>1, <1>2 DEF Better
<1>3. CASE objective = "LOWEST_DRAWDOWN" BY <1>1, <1>3 DEF Better
<1>4. CASE objective = "RETURN_DRAWDOWN"
  <2> DEFINE x == Max({a.drawdown, 1})
             y == Max({b.drawdown, 1})
             z == Max({c.drawdown, 1})
  <2>1. \A n \in Nat : Max({n, 1}) \in Nat /\ Max({n, 1}) > 0
    <3> TAKE n \in Nat
    <3>1. IsFiniteSet({n, 1}) /\ {n, 1} \in SUBSET Int /\ {n, 1} # {}
      <4>1. IsFiniteSet({n}) BY FS_Singleton
      <4>2. IsFiniteSet({n} \cup {1}) BY <4>1, FS_AddElement
      <4>3. {n} \cup {1} = {n, 1} OBVIOUS
      <4> QED BY <4>2, <4>3
    <3>2. Max({n, 1}) \in {n, 1} /\ \A e \in {n, 1} : Max({n, 1}) >= e BY <3>1, MaxIsGreatest
    <3> QED BY <3>2
  <2>2. x \in Nat /\ x > 0 /\ y \in Nat /\ y > 0 /\ z \in Nat /\ z > 0 BY <1>1, <2>1
  <2>3. /\ Better(objective, a, a) <=> a.pnl * x > a.pnl * x
        /\ Better(objective, a, b) <=> a.pnl * y > b.pnl * x
        /\ Better(objective, b, a) <=> b.pnl * x > a.pnl * y
        /\ Better(objective, c, b) <=> c.pnl * y > b.pnl * z
        /\ Better(objective, c, a) <=> c.pnl * x > a.pnl * z
    BY <1>4 DEF Better
  <2> HIDE DEF x, y, z
  <2>4. /\ a.pnl * x \in Int /\ a.pnl * y \in Int /\ b.pnl * x \in Int /\ c.pnl * y \in Int
        /\ b.pnl * z \in Int /\ c.pnl * x \in Int /\ a.pnl * z \in Int
    BY <1>1, <2>2
  <2>5. ASSUME ~ Better(objective, b, a), ~ Better(objective, c, b) PROVE ~ Better(objective, c, a)
    <3>1. a.pnl * y >= b.pnl * x /\ b.pnl * z >= c.pnl * y BY <2>3, <2>4, <2>5
    <3>2. a.pnl * z >= c.pnl * x BY <1>1, <2>2, <3>1, FractionsAreOrdered
    <3>3. ~ (c.pnl * x > a.pnl * z) BY <2>4, <3>2
    <3> QED BY <2>3, <3>3
  <2>6. ~ (a.pnl * x > a.pnl * x) /\ ~ (a.pnl * y > b.pnl * x /\ b.pnl * x > a.pnl * y) BY <2>4
  <2> QED BY <2>3, <2>5, <2>6
<1>5. CASE objective \notin {"NET_PNL", "RETURN_DRAWDOWN", "LOWEST_DRAWDOWN"} BY <1>1, <1>5 DEF Better
<1> QED BY <1>2, <1>3, <1>4, <1>5

\* Of the candidates with enough trades one comes first, and none is better.
LEMMA FirstOfRanked ==
  ASSUME NEW objective, NEW minimum, NEW n \in Nat, NEW runs \in [1 .. n -> PlanMetrics]
  PROVE  LET eligible == EnoughTrades(minimum, runs)
             order == Ranked(objective, minimum, runs)
         IN  IF eligible = {} THEN order = <<>>
             ELSE /\ order # <<>> /\ Head(order) \in eligible
                  /\ \A j \in eligible : ~ Before(objective, runs, j, Head(order))
<1> DEFINE eligible == EnoughTrades(minimum, runs)
           order == Ranked(objective, minimum, runs)
           N == Cardinality(eligible)
           ahead(i) == {j \in eligible : Before(objective, runs, j, i)}
<1>1. eligible \in SUBSET (1 .. n) /\ IsFiniteSet(eligible)
  <2> DEFINE all == 1 .. n
  <2>1. IsFiniteSet(all)
    <3>1. 1 \in Int /\ n \in Int OBVIOUS
    <3> QED BY <3>1, FS_Interval
  <2>2. eligible \in SUBSET all BY DEF EnoughTrades
  <2> HIDE DEF all, eligible
  <2>3. IsFiniteSet(eligible) BY <2>1, <2>2, FS_Subset
  <2> QED BY <2>2, <2>3 DEF all
<1>2. order = [k \in 1 .. N |-> CHOOSE i \in eligible : Cardinality(ahead(i)) = k - 1] BY DEF Ranked
<1>3. N \in Nat BY <1>1, FS_CardinalityType
<1>4. CASE eligible = {}
  <2>1. N = 0 BY <1>4, FS_EmptySet
  <2>2. order = <<>> BY <1>2, <2>1
  <2> QED BY <1>4, <2>2
<1>5. CASE eligible # {}
  <2> HIDE DEF eligible
  <2>1. N # 0 BY <1>1, <1>5, FS_EmptySet
  <2>2. \A i \in eligible : i \in Int /\ runs[i] \in PlanMetrics BY <1>1
  <2>3. \E i \in eligible : ahead(i) = {}
    <3> DEFINE R == {e \in eligible \X eligible : Before(objective, runs, e[1], e[2])}
    <3>1. \A i, j \in eligible : <<i, j>> \in R <=> Before(objective, runs, i, j) OBVIOUS
    <3>2. ASSUME NEW i \in eligible PROVE <<i, i>> \notin R
      <4>1. ~ Better(objective, runs[i], runs[i]) /\ ~ (i < i) BY <2>2, NotWorseIsAnOrder
      <4> QED BY <3>1, <4>1 DEF Before
    <3>3. ASSUME NEW i \in eligible, NEW j \in eligible, NEW k \in eligible,
                 Before(objective, runs, i, j), Before(objective, runs, j, k)
          PROVE  Before(objective, runs, i, k)
      <4> DEFINE B(s, t) == Better(objective, runs[s], runs[t])
      <4>1. ~ B(j, i) /\ ~ B(k, j) BY <2>2, <3>3, NotWorseIsAnOrder DEF Before
      <4>2. ~ B(k, i) BY <2>2, <4>1, NotWorseIsAnOrder
      <4>3. ~ B(i, k) => ~ B(i, j)
        <5>1. ~ B(i, k) /\ ~ B(k, j) => ~ B(i, j)
          <6>1. runs[i] \in PlanMetrics /\ runs[j] \in PlanMetrics /\ runs[k] \in PlanMetrics BY <2>2
          <6> QED BY <6>1, NotWorseIsAnOrder
        <5> QED BY <4>1, <5>1
      <4>4. ~ B(i, k) => ~ B(j, k)
        <5>1. ~ B(j, i) /\ ~ B(i, k) => ~ B(j, k)
          <6>1. runs[i] \in PlanMetrics /\ runs[j] \in PlanMetrics /\ runs[k] \in PlanMetrics BY <2>2
          <6> QED BY <6>1, NotWorseIsAnOrder
        <5> QED BY <4>1, <5>1
      <4>5. i \in Int /\ j \in Int /\ k \in Int BY <2>2
      <4>6. (B(i, j) \/ i < j) /\ (B(j, k) \/ j < k) BY <3>3 DEF Before
      <4> HIDE DEF B
      <4>7. B(i, k) \/ (~ B(k, i) /\ i < k) BY <4>2, <4>3, <4>4, <4>5, <4>6
      <4> QED BY <4>7 DEF Before, B
    <3>4. \A i, j, k \in eligible : <<i, j>> \in R /\ <<j, k>> \in R => <<i, k>> \in R BY <3>1, <3>3
    <3> HIDE DEF R
    <3>5. \E i \in eligible : \A j \in eligible : <<j, i>> \notin R BY <1>1, <1>5, <3>2, <3>4, FirstOf
    <3>6. PICK i \in eligible : \A j \in eligible : ~ Before(objective, runs, j, i) BY <3>1, <3>5
    <3> QED BY <3>6
  <2>4. \E i \in eligible : Cardinality(ahead(i)) = 1 - 1
    <3>1. Cardinality({}) = 0 BY FS_EmptySet
    <3> HIDE DEF ahead
    <3> QED BY <2>3, <3>1
  <2>5. 1 \in 1 .. N BY <1>3, <2>1
  <2>6. order[1] = CHOOSE i \in eligible : Cardinality(ahead(i)) = 1 - 1 BY <1>2, <2>5
  <2>7. order[1] \in eligible /\ Cardinality(ahead(order[1])) = 0 
    <3> HIDE DEF ahead, order
    <3> QED BY <2>4, <2>6
  <2>8. ahead(order[1]) = {}
    <3>1. IsFiniteSet(ahead(order[1]))
      <4>1. ahead(order[1]) \in SUBSET eligible OBVIOUS
      <4> HIDE DEF ahead
      <4> QED BY <1>1, <4>1, FS_Subset
    <3> HIDE DEF ahead
    <3> QED BY <2>7, <3>1, FS_EmptySet
  <2>9. order # <<>> /\ Head(order) = order[1]
    <3>1. DOMAIN order = 1 .. N BY <1>2
    <3>3. 1 \in DOMAIN order /\ DOMAIN <<>> = {} BY <2>5, <3>1
    <3> HIDE DEF order
    <3>2. order # <<>> BY <3>3
    <3> QED BY <3>2 DEF Head
  <2>10. \A j \in eligible : ~ Before(objective, runs, j, order[1]) BY <2>8
  <2> HIDE DEF order, N
  <2> QED BY <1>5, <2>7, <2>9, <2>10 DEF eligible, order
<1> QED BY <1>4, <1>5

\* A plan that was shown or stored: its tests are on unseen sessions by the calendar it
\* was made with, and the candidates of a validation can be counted.
SessionsFit(plan, sessions) ==
    /\ TestsAreUnseen(plan.req, plan.folds, sessions)
    /\ plan.req.kind = "validation" => Cardinality(plan.variants) \in Nat

PlanInv ==
    /\ \A plan \in previews : plan.req \in PlanRequests
    /\ \A s \in submissions : s.plan \in previews
    /\ \A s \in submissions \cup plans : SessionsFit(s.plan, s.sessions)
    /\ StoredPlanWasPreviewed
    /\ WinnerIsBest

LEMMA PreparedPlanIsSound ==
  ASSUME NEW req \in PlanRequests, Prepared(req)
  PROVE  PlanOf(req).req = req /\ SessionsFit(PlanOf(req), Sessions(req))
<1> DEFINE plan == PlanOf(req)
<1>1. /\ plan.req = req
      /\ plan.folds = IF req.kind = "experiment" THEN <<>> ELSE Folds(req)
      /\ plan.variants = IF req.kind = "experiment" THEN VariantsOf(req) ELSE Candidates(req)
  BY DEF PlanOf
<1> HIDE DEF plan
<1>2. CASE req.kind = "experiment"
  <2>1. plan.folds = <<>> /\ DOMAIN <<>> = {} BY <1>1, <1>2
  <2>2. TestsAreUnseen(plan.req, plan.folds, Sessions(req)) BY <2>1 DEF TestsAreUnseen
  <2>3. plan.req.kind # "validation" BY <1>1, <1>2
  <2> QED BY <1>1, <2>2, <2>3 DEF SessionsFit, plan
<1>3. CASE req.kind # "experiment"
  <2>1. WindowsOf(req) BY <1>3, PlanRequestsAreValid DEF WindowsOf
  <2>2. TestsAreUnseen(req, Folds(req), Sessions(req)) BY <2>1, FoldsAreUnseen
  <2>3. Cardinality(Candidates(req)) \in 1 .. MaxCandidatesPerFold BY <1>3 DEF Prepared, ValidationOK, WorkloadOK
  <2>4. MaxCandidatesPerFold \in Nat BY PlanLimitsArePositive
  <2>5. Cardinality(Candidates(req)) \in Nat BY <2>3, <2>4
  <2>6. plan.folds = Folds(req) /\ plan.variants = Candidates(req) BY <1>1, <1>3
  <2> QED BY <1>1, <2>2, <2>5, <2>6 DEF SessionsFit, plan
<1> QED BY <1>2, <1>3

LEMMA PlanStep == PlanInv /\ [PlanNext]_planVars => PlanInv'
<1> SUFFICES ASSUME PlanInv, [PlanNext]_planVars PROVE PlanInv' OBVIOUS
<1>1. ASSUME NEW req \in PlanRequests, Preview(req) PROVE PlanInv'
  <2>1. Prepared(req) /\ previews' = previews \cup {PlanOf(req)} /\ UNCHANGED <<submissions, plans, ranking>>
    BY <1>1 DEF Preview
  <2>2. PlanOf(req).req = req BY <2>1, PreparedPlanIsSound
  <2>3. \A plan \in previews' : plan.req \in PlanRequests BY <2>1, <2>2 DEF PlanInv
  <2>4. StoredPlanWasPreviewed' BY <2>1 DEF PlanInv, StoredPlanWasPreviewed
  <2>5. WinnerIsBest' BY <2>1 DEF PlanInv, WinnerIsBest
  <2>6. /\ \A s \in submissions' : s.plan \in previews'
        /\ \A s \in submissions' \cup plans' : SessionsFit(s.plan, s.sessions)
    BY <2>1 DEF PlanInv
  <2> QED BY <2>3, <2>4, <2>5, <2>6 DEF PlanInv
<1>2. ASSUME NEW preview \in previews, NEW key \in PlanKeys, BeginSubmission(preview.req, preview, key)
      PROVE  PlanInv'
  <2> DEFINE new == [key |-> key, plan |-> PlanOf(preview.req), sessions |-> Sessions(preview.req)]
  <2>1. /\ PlanOf(preview.req) = preview /\ UNCHANGED <<previews, plans, ranking>>
        /\ submissions' = submissions \cup {new} /\ Prepared(preview.req) /\ preview.req \in PlanRequests
    BY <1>2 DEF BeginSubmission, HashMatches, PlanInv
  <2>4. SessionsFit(new.plan, new.sessions) BY <2>1, PreparedPlanIsSound
  <2>5. \A s \in submissions' \cup plans' : SessionsFit(s.plan, s.sessions) BY <2>1, <2>4 DEF PlanInv
  <2>2. \A s \in submissions' : s.plan \in previews BY <2>1 DEF PlanInv
  <2>3. StoredPlanWasPreviewed' /\ WinnerIsBest' BY <2>1 DEF PlanInv, StoredPlanWasPreviewed, WinnerIsBest
  <2> QED BY <2>1, <2>2, <2>3, <2>5 DEF PlanInv
<1>3. ASSUME NEW s \in submissions, StorePlan(s) PROVE PlanInv'
  <2>1. /\ submissions' = submissions \ {s} /\ UNCHANGED <<previews, ranking>>
        /\ plans' = IF \E p \in plans : p.key = s.key THEN plans ELSE plans \cup {s}
    BY <1>3 DEF StorePlan
  <2>2. plans' \subseteq plans \cup {s} BY <2>1
  <2>3. StoredPlanWasPreviewed' BY <2>1, <2>2 DEF PlanInv, StoredPlanWasPreviewed
  <2>4. WinnerIsBest' BY <2>1 DEF PlanInv, WinnerIsBest
  <2> QED BY <2>1, <2>3, <2>4 DEF PlanInv
<1>4. ASSUME NEW symbols \in Watchlists, NEW days \in Calendars, NEW gone \in BOOLEAN,
             EditInputs(symbols, days, gone)
      PROVE  PlanInv'
  <2>1. UNCHANGED <<previews, submissions, plans, ranking>> BY <1>4 DEF EditInputs
  <2> QED BY <2>1 DEF PlanInv, StoredPlanWasPreviewed, WinnerIsBest
<1>5. ASSUME NEW p \in plans, NEW runs \in [1 .. Cardinality(p.plan.variants) -> PlanMetrics], RankFold(p, runs)
      PROVE  PlanInv'
  <2> DEFINE req == p.plan.req
             order == Ranked(req.objective, req.minimumTrades, runs)
             winner == IF order = <<>> THEN 0 ELSE Head(order)
             eligible == EnoughTrades(req.minimumTrades, runs)
             n == Cardinality(p.plan.variants)
  <2>1. /\ req.kind = "validation" /\ UNCHANGED <<previews, submissions, plans>>
        /\ ranking' = <<[req |-> req, runs |-> runs, winner |-> winner]>>
    BY <1>5 DEF RankFold
  <2>2. n \in Nat BY <2>1 DEF PlanInv, SessionsFit
  <2>3. IF eligible = {} THEN order = <<>>
        ELSE /\ order # <<>> /\ Head(order) \in eligible
             /\ \A j \in eligible : ~ Before(req.objective, runs, j, Head(order))
    <3> DEFINE objective == req.objective
               minimum == req.minimumTrades
    <3>1. runs \in [1 .. n -> PlanMetrics] OBVIOUS
    <3> HIDE DEF n, req
    <3> QED BY <2>2, <3>1, FirstOfRanked
  <2>4. IF eligible = {} THEN winner = 0
        ELSE /\ winner \in eligible
             /\ \A i \in eligible : ~ Better(req.objective, runs[i], runs[winner])
             /\ \A i \in eligible : i < winner => Better(req.objective, runs[winner], runs[i])
    <3>1. CASE eligible = {} BY <2>3, <3>1
    <3>2. CASE eligible # {}
      <4>1. winner \in eligible /\ \A j \in eligible : ~ Before(req.objective, runs, j, winner)
        <5> HIDE DEF order, eligible, req
        <5> QED BY <2>3, <3>2
      <4> HIDE DEF winner, eligible, req
      <4> QED BY <3>2, <4>1 DEF Before
    <3> QED BY <3>1, <3>2
  <2>5. WinnerIsBest'
    <3> HIDE DEF winner, req
    <3>1. DOMAIN ranking' = {1} /\ ranking'[1] = [req |-> req, runs |-> runs, winner |-> winner] BY <2>1
    <3>2. ranking'[1].req = req /\ ranking'[1].runs = runs /\ ranking'[1].winner = winner BY <3>1
    <3> QED BY <2>4, <3>1, <3>2 DEF WinnerIsBest
  <2>6. StoredPlanWasPreviewed' BY <2>1 DEF PlanInv, StoredPlanWasPreviewed
  <2> QED BY <2>1, <2>5, <2>6 DEF PlanInv
<1>6. CASE UNCHANGED planVars BY <1>6 DEF planVars, PlanInv, StoredPlanWasPreviewed, WinnerIsBest
<1> QED BY <1>1, <1>2, <1>3, <1>4, <1>5, <1>6 DEF PlanNext

LEMMA InitPlanInv == PlanInit => PlanInv
  BY DEF PlanInit, PlanInv, StoredPlanWasPreviewed, WinnerIsBest

LEMMA PlanInvIsSound == PlanInv => PlansAreSound
  BY DEF PlanInv, SessionsFit, UnseenStaysUnseen, PlansAreSound

\* Whatever is edited between a preview and its submission: a stored plan was shown to
\* a user, each of its tests is on sessions its training did not see, and the candidate
\* a fold goes on with is its best (generate_folds, rank_completed_candidates).
THEOREM PlansAreAlwaysSound == PlanSpec => []PlansAreSound
  BY InitPlanInv, PlanStep, PlanInvIsSound, PTL DEF PlanSpec
=============================================================================
