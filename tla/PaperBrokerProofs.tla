------------------------- MODULE PaperBrokerProofs -------------------------
(***************************************************************************)
(* A signal opens at most one lot: proof for every configuration, every    *)
(* tape and every interleaving of crashes, errors, restarts and take-overs. *)
(* And the books balance: money and units are conserved between any two    *)
(* transactions of a handler, as long as every process begins with the     *)
(* memory that its predecessor had.  And the lots of a cycle have the      *)
(* numbers 1, 2, ... of its policy, each once.                             *)
(***************************************************************************)
EXTENDS PaperBroker, SumsAndExtrema

\* A sequence, whatever its elements are.
Proper(s) == s \in Seq(ToSet(s))

\* Frames of a handler none of which inserts a lot.
Harmless(frames) ==
    /\ Proper(frames)
    /\ \A k \in DOMAIN frames : "do" \in DOMAIN frames[k] /\ frames[k].do # "lot"

\* An order row fills sig (the row the unique index of paper_orders finds).
Filled(sig) == \E k \in DOMAIN orders : orders[k].sig = sig /\ orders[k].status = "FILLED"

\* A lot that may be inserted: its order is filled and its signal has no lot.
Insertable(lot) ==
    /\ "sig" \in DOMAIN lot
    /\ lot.sig # NoSignal =>
          Filled(lot.sig) /\ \A i \in DOMAIN lots : lots[i].sig # lot.sig

\* Every row has its signal column; a lot of a signal rests on a filled order;
\* a lot about to be inserted is the next step of the handler.
SignalInv ==
    /\ Proper(orders) /\ Proper(lots) /\ Proper(todo)
    /\ \A i \in DOMAIN lots : "sig" \in DOMAIN lots[i]
    /\ OneLotPerSignal
    /\ \A i \in DOMAIN lots : lots[i].sig # NoSignal => Filled(lots[i].sig)
    /\ \A k \in DOMAIN todo : "do" \in DOMAIN todo[k]
    /\ \A k \in DOMAIN todo : todo[k].do = "lot" => k = 1 /\ Insertable(todo[k].lot)
-----------------------------------------------------------------------------
(* Sequences of any elements. *)

\* A sequence over any set is a sequence over the set of its elements.
LEMMA ProperSeq == ASSUME NEW S, NEW s \in Seq(S) PROVE Proper(s)
<1> s \in [1..Len(s) -> ToSet(s)]
  BY DEF ToSet
<1> QED BY SeqDef DEF Proper

\* Its domain.
LEMMA ProperDomain == ASSUME NEW s, Proper(s)
                      PROVE Len(s) \in Nat /\ DOMAIN s = 1..Len(s)
  BY DEF Proper

\* The empty one.
LEMMA ProperEmpty == Proper(<<>>) /\ DOMAIN <<>> = {}
<1>1. <<>> \in Seq({}) OBVIOUS
<1>2. Proper(<<>>) BY <1>1, ProperSeq
<1>3. DOMAIN <<>> = {} OBVIOUS
<1> QED BY <1>2, <1>3

\* INSERT appends a row.
LEMMA ProperAppend == ASSUME NEW s, NEW e, Proper(s)
  PROVE /\ Proper(Append(s, e))
        /\ DOMAIN Append(s, e) = 1..(Len(s) + 1)
        /\ \A i \in DOMAIN s : i \in DOMAIN Append(s, e) /\ Append(s, e)[i] = s[i]
        /\ Append(s, e)[Len(s) + 1] = e
        /\ \A i \in DOMAIN Append(s, e) : i \in DOMAIN s \/ i = Len(s) + 1
<1> DEFINE S == ToSet(s) \cup {e}
<1>1. s \in Seq(S) BY DEF Proper
<1>2. Append(s, e) \in Seq(S) BY <1>1
<1>3. Proper(Append(s, e)) BY <1>2, ProperSeq
<1>4. Len(s) \in Nat /\ DOMAIN s = 1..Len(s) BY <1>1
<1>5. e \in S OBVIOUS
<1> HIDE DEF S
<1>6. DOMAIN Append(s, e) = 1..(Len(s) + 1) BY <1>1, <1>5
<1>7. \A i \in 1..Len(s) : Append(s, e)[i] = s[i] BY <1>1, <1>5
<1>8. Append(s, e)[Len(s) + 1] = e BY <1>1, <1>5
<1> QED BY <1>3, <1>4, <1>6, <1>7, <1>8

\* UPDATE changes one row, or none.
LEMMA ProperUpdate == ASSUME NEW s, NEW e, NEW n, Proper(s)
  PROVE Proper([s EXCEPT ![n] = e])
<1> DEFINE S == ToSet(s) \cup {e}
<1>1. s \in Seq(S) BY DEF Proper
<1>2. e \in S OBVIOUS
<1> HIDE DEF S
<1>3. s \in [1..Len(s) -> S] /\ Len(s) \in Nat BY <1>1
<1>4. [s EXCEPT ![n] = e] \in [1..Len(s) -> S] BY <1>2, <1>3
<1>5. [s EXCEPT ![n] = e] \in Seq(S) BY <1>3, <1>4, SeqDef
<1> QED BY <1>5, ProperSeq

\* Frames pushed on frames.
LEMMA ProperConcat == ASSUME NEW s, NEW t, Proper(s), Proper(t)
  PROVE /\ Proper(s \o t)
        /\ \A i \in DOMAIN (s \o t) : \/ i \in DOMAIN s /\ (s \o t)[i] = s[i]
                                      \/ i - Len(s) \in DOMAIN t /\ (s \o t)[i] = t[i - Len(s)]
<1> DEFINE S == ToSet(s) \cup ToSet(t)
<1>1. s \in Seq(S) /\ t \in Seq(S) BY DEF Proper
<1> HIDE DEF S
<1>2. s \o t \in Seq(S) /\ Len(s \o t) = Len(s) + Len(t) BY <1>1
<1>3. Len(s) \in Nat /\ Len(t) \in Nat /\ DOMAIN s = 1..Len(s) /\ DOMAIN t = 1..Len(t)
      BY <1>1
<1>4. \A i \in 1..(Len(s) + Len(t)) :
         (s \o t)[i] = IF i <= Len(s) THEN s[i] ELSE t[i - Len(s)]
      BY <1>1
<1>5. DOMAIN (s \o t) = 1..(Len(s) + Len(t)) BY <1>2
<1>6. Proper(s \o t) BY <1>2, ProperSeq
<1> QED BY <1>3, <1>4, <1>5, <1>6
-----------------------------------------------------------------------------
(* Frames. *)

\* Frames that insert no lot can be put together.
LEMMA HarmlessConcat == ASSUME NEW f, NEW g, Harmless(f), Harmless(g)
                        PROVE Harmless(f \o g)
<1>1. Proper(f) /\ Proper(g) BY DEF Harmless
<1>2. Proper(f \o g) BY <1>1, ProperConcat
<1>3. ASSUME NEW k \in DOMAIN (f \o g)
      PROVE "do" \in DOMAIN (f \o g)[k] /\ (f \o g)[k].do # "lot"
  <2>1. CASE k \in DOMAIN f /\ (f \o g)[k] = f[k] BY <2>1 DEF Harmless
  <2>2. CASE k - Len(f) \in DOMAIN g /\ (f \o g)[k] = g[k - Len(f)] BY <2>2 DEF Harmless
  <2> QED BY <1>1, <2>1, <2>2, ProperConcat
<1> QED BY <1>2, <1>3 DEF Harmless

\* No frame.
LEMMA HarmlessEmpty == Harmless(<<>>)
  BY ProperEmpty DEF Harmless

\* One frame.
LEMMA HarmlessOne == ASSUME NEW x, "do" \in DOMAIN x, x.do # "lot"
                     PROVE Harmless(<<x>>)
<1>1. <<x>> \in Seq({x}) /\ DOMAIN <<x>> = {1} /\ <<x>>[1] = x OBVIOUS
<1>2. Proper(<<x>>) BY <1>1, ProperSeq
<1> QED BY <1>1, <1>2 DEF Harmless

\* Two frames.
LEMMA HarmlessTwo == ASSUME NEW x, NEW y, "do" \in DOMAIN x, x.do # "lot",
                            "do" \in DOMAIN y, y.do # "lot"
                     PROVE Harmless(<<x, y>>)
<1>1. <<x, y>> \in Seq({x, y}) /\ DOMAIN <<x, y>> = {1, 2}
      /\ <<x, y>>[1] = x /\ <<x, y>>[2] = y OBVIOUS
<1>2. Proper(<<x, y>>) BY <1>1, ProperSeq
<1> QED BY <1>1, <1>2 DEF Harmless

\* The frame of a loop, if anything is left to do.
LEMMA HarmlessLoop == ASSUME NEW x, NEW items, "do" \in DOMAIN x, x.do # "lot"
                      PROVE Harmless(Loop(x, items))
<1> DEFINE y == [x EXCEPT !.left = items]
<1>1. "do" \in DOMAIN y /\ y.do = x.do OBVIOUS
<1>2. Harmless(<<y>>) BY <1>1, HarmlessOne
<1> QED BY <1>2, HarmlessEmpty DEF Loop

\* What is below the frame that runs inserts no lot.
LEMMA HarmlessTail == ASSUME SignalInv, todo # <<>>
                      PROVE /\ Harmless(Tail(todo))
                            /\ 1 \in DOMAIN todo /\ Head(todo) = todo[1]
                            /\ "do" \in DOMAIN Head(todo)
<1> DEFINE S == ToSet(todo)
<1>1. todo \in Seq(S) BY DEF SignalInv, Proper
<1> HIDE DEF S
<1>2. Tail(todo) \in Seq(S) /\ Len(todo) \in Nat /\ Len(todo) > 0 /\ DOMAIN todo = 1..Len(todo)
      BY <1>1
<1>3. DOMAIN Tail(todo) = 1..(Len(todo) - 1) BY <1>1, <1>2
<1>4. \A k \in 1..(Len(todo) - 1) : Tail(todo)[k] = todo[k + 1] BY <1>1, <1>2
<1>5. Head(todo) = todo[1] BY <1>1
<1>6. Proper(Tail(todo)) BY <1>2, ProperSeq
<1>7. \A k \in DOMAIN Tail(todo) : k + 1 \in DOMAIN todo /\ k + 1 # 1
                                   /\ Tail(todo)[k] = todo[k + 1]
      BY <1>2, <1>3, <1>4
<1>8. \A k \in DOMAIN Tail(todo) :
         "do" \in DOMAIN Tail(todo)[k] /\ Tail(todo)[k].do # "lot"
      BY <1>7 DEF SignalInv
<1>9. 1 \in DOMAIN todo BY <1>2
<1> QED BY <1>5, <1>6, <1>8, <1>9 DEF Harmless, SignalInv

\* A step that replaces its frame by harmless ones.
LEMMA HarmlessThen == ASSUME SignalInv, todo # <<>>, NEW f, Harmless(f), Then(f)
                      PROVE Harmless(todo')
  BY HarmlessTail, HarmlessConcat DEF Then

\* The rest of the loop whose frame runs.
LEMMA HarmlessOthers == ASSUME SignalInv, todo # <<>>, Head(todo).do # "lot"
                        PROVE Harmless(Others)
  BY HarmlessTail, HarmlessLoop DEF Others
-----------------------------------------------------------------------------
(* Steps. *)

\* The rows keep their signals: nothing inserted, nothing deleted.
SameSignals ==
    /\ Proper(lots') /\ DOMAIN lots' = DOMAIN lots
    /\ \A i \in DOMAIN lots : "sig" \in DOMAIN lots'[i] /\ lots'[i].sig = lots[i].sig

\* Orders are only ever added.
OrdersGrow ==
    /\ Proper(orders')
    /\ \A k \in DOMAIN orders : k \in DOMAIN orders' /\ orders'[k] = orders[k]

\* A step that inserts no lot and leaves harmless frames keeps the invariant.
LEMMA QuietStep == ASSUME SignalInv, Harmless(todo'), SameSignals, OrdersGrow
                   PROVE SignalInv'
<1>1. \A sig : Filled(sig) => Filled(sig)' BY DEF OrdersGrow, Filled
<1>2. Proper(orders)' /\ Proper(lots)' /\ Proper(todo)'
      BY DEF OrdersGrow, SameSignals, Harmless, Proper
<1>3. (\A i \in DOMAIN lots : "sig" \in DOMAIN lots[i])' BY DEF SameSignals
<1>4. OneLotPerSignal' BY DEF SameSignals, SignalInv, OneLotPerSignal
<1>5. (\A i \in DOMAIN lots : lots[i].sig # NoSignal => Filled(lots[i].sig))'
  <2> SUFFICES ASSUME NEW i \in DOMAIN lots', lots'[i].sig # NoSignal
               PROVE Filled(lots[i].sig)'
      BY DEF NoSignal
  <2>1. i \in DOMAIN lots /\ lots'[i].sig = lots[i].sig BY DEF SameSignals
  <2>2. Filled(lots[i].sig) BY <2>1 DEF SignalInv
  <2> QED BY <2>1, <2>2 DEF OrdersGrow, Filled
<1>6. (\A k \in DOMAIN todo : "do" \in DOMAIN todo[k] /\ todo[k].do # "lot")'
      BY DEF Harmless
<1> QED BY <1>2, <1>3, <1>4, <1>5, <1>6 DEF SignalInv

\* A step that leaves the rows of lots alone.
LEMMA LotsUnchanged == ASSUME SignalInv, UNCHANGED lots PROVE SameSignals
  BY DEF SignalInv, SameSignals, Proper

\* A step that leaves the orders alone.
LEMMA OrdersUnchanged == ASSUME SignalInv, UNCHANGED orders PROVE OrdersGrow
  BY DEF SignalInv, OrdersGrow, Proper

\* An UPDATE of one lot keeps its signal.
LEMMA LotUpdated == ASSUME SignalInv, NEW n, NEW row,
                           n \in DOMAIN lots => "sig" \in DOMAIN row /\ row.sig = lots[n].sig,
                           lots' = [lots EXCEPT ![n] = row]
                    PROVE SameSignals
<1>1. Proper(lots') BY ProperUpdate DEF SignalInv
<1>2. DOMAIN lots' = DOMAIN lots OBVIOUS
<1>3. \A i \in DOMAIN lots : lots'[i] = IF i = n THEN row ELSE lots[i] OBVIOUS
<1> QED BY <1>1, <1>2, <1>3 DEF SameSignals, SignalInv

\* lots.mark(), whether the row is open or not.
LEMMA RowMarked == ASSUME SignalInv, NEW id,
                          NEW cost, NEW target, NEW unreal, NEW last,
                          MarkRow(id, cost, target, unreal, last)
                   PROVE SameSignals
<1>1. CASE lots[id].status # "OPEN"
  BY <1>1, LotsUnchanged DEF MarkRow
<1>2. CASE lots[id].status = "OPEN"
  <2> DEFINE row == [lots[id] EXCEPT !.cost = cost, !.target = target,
                                     !.unreal = unreal, !.last = last]
  <2>1. lots' = [lots EXCEPT ![id] = row] BY <1>2 DEF MarkRow
  <2>2. id \in DOMAIN lots => "sig" \in DOMAIN lots[id] BY DEF SignalInv
  <2>3. id \in DOMAIN lots => "sig" \in DOMAIN row /\ row.sig = lots[id].sig BY <2>2
  <2> QED BY <2>1, <2>3, LotUpdated
<1> QED BY <1>1, <1>2
-----------------------------------------------------------------------------
(* The actions, by what they do to orders, lots and the frames. *)

\* Steps that write neither orders nor lots.
LEMMA OtherSteps ==
  ASSUME SignalInv,
         \/ Persist \/ Consider \/ DeletePending \/ InsertBuy \/ Debit
         \/ Sweep \/ InsertSell \/ Credit \/ Ladder
  PROVE SignalInv'
<1>0. UNCHANGED orders /\ UNCHANGED lots /\ todo # <<>> /\ Head(todo).do # "lot"
  BY DEF Persist, Consider, DeletePending, InsertBuy, Debit, Sweep, InsertSell, Credit,
         Ladder, Doing, db
<1>1. SameSignals /\ OrdersGrow BY <1>0, LotsUnchanged, OrdersUnchanged
<1>2. Harmless(Others) BY <1>0, HarmlessOthers
<1>3. \A f : Harmless(f) /\ Then(f) => Harmless(todo') BY <1>0, HarmlessThen
<1>4. Harmless(todo')
  <2>1. CASE Persist BY <2>1, <1>3, HarmlessEmpty DEF Persist
  <2>2. CASE Consider
    <3> DEFINE fill == [do |-> "fill", p |-> Item, ref |-> Head(todo).bar.o,
                        ts |-> Head(todo).bar.ts]
               delete == [do |-> "delete", p |-> Item]
    <3>1. Harmless(<<delete>> \o Others) BY <1>2, HarmlessOne, HarmlessConcat
    <3>2. Harmless(<<fill, delete>> \o Others) BY <1>2, HarmlessTwo, HarmlessConcat
    <3> QED BY <2>2, <1>2, <1>3, <3>1, <3>2 DEF Consider
  <2>3. CASE DeletePending BY <2>3, <1>3, HarmlessEmpty DEF DeletePending
  <2>4. CASE InsertBuy
    <3> DEFINE x == Step("debit", Head(todo).id)
    <3>1. Harmless(<<x>>) BY HarmlessOne DEF Step
    <3> QED BY <2>4, <1>3, <3>1 DEF InsertBuy
  <2>5. CASE Debit
    <3> DEFINE x == [do |-> "remark", close |-> lots[Head(todo).id].entryPrice]
    <3>1. Harmless(<<x>>) BY HarmlessOne
    <3> QED BY <2>5, <1>3, <3>1 DEF Debit
  <2>6. CASE Sweep
    <3> DEFINE x == [do |-> "exit", left |-> <<>>, bar |-> Head(todo).bar]
               y == [do |-> "settle", bar |-> Head(todo).bar, ch |-> Head(todo).ch]
               l == Loop(x, InScope(Head(todo).ch))
    <3>1. Harmless(l) /\ Harmless(<<y>>) BY HarmlessOne, HarmlessLoop
    <3>2. Harmless(l \o <<y>>) BY <3>1, HarmlessConcat
    <3> QED BY <2>6, <1>3, <3>2 DEF Sweep
  <2>7. CASE InsertSell
    <3> DEFINE x == [do |-> "credit", id |-> Head(todo).id, price |-> Head(todo).price]
    <3>1. Harmless(<<x>>) BY HarmlessOne
    <3> QED BY <2>7, <1>3, <3>1 DEF InsertSell
  <2>8. CASE Credit BY <2>8, <1>3, HarmlessEmpty DEF Credit
  <2>9. CASE Ladder
    <3> PICK p : Then(<<[do |-> "persist", p |-> p]>> \o Others) \/ Then(Others)
        BY <2>9 DEF Ladder
    <3> DEFINE x == [do |-> "persist", p |-> p]
    <3>1. Harmless(<<x>> \o Others) BY <1>2, HarmlessOne, HarmlessConcat
    <3> QED BY <1>2, <1>3, <3>1
  <2> QED BY <2>1, <2>2, <2>3, <2>4, <2>5, <2>6, <2>7, <2>8, <2>9
<1> QED BY <1>1, <1>4, QuietStep

\* Steps that mark or close rows of lots, or raise.
LEMMA RowSteps ==
  ASSUME SignalInv, Remark \/ Settle \/ Mark \/ Exit \/ Close
  PROVE SignalInv'
<1>0. UNCHANGED orders /\ todo # <<>> /\ Head(todo).do # "lot"
  BY DEF Remark, Settle, Mark, Exit, Close, Doing, db
<1>1. OrdersGrow BY <1>0, OrdersUnchanged
<1>2. Harmless(Others) BY <1>0, HarmlessOthers
<1>3. \A f : Harmless(f) /\ Then(f) => Harmless(todo') BY <1>0, HarmlessThen
<1>4. Raise => Harmless(todo') BY HarmlessEmpty DEF Raise
<1>5. ASSUME NEW ids, NEW close, NEW f, Harmless(f), MarkThen(ids, close, f)
      PROVE Harmless(todo')
  <2> DEFINE x == [do |-> "mark", left |-> <<>>, close |-> close]
  <2>1. Harmless(Loop(x, InOrder(ids)) \o f) BY <1>5, HarmlessLoop, HarmlessConcat
  <2> QED BY <1>5, <1>3, <1>4, <2>1 DEF MarkThen
<1>6. CASE Remark
  <2>1. SameSignals BY <1>6, LotsUnchanged DEF Remark, db
  <2>2. Harmless(todo') BY <1>6, <1>5, HarmlessEmpty DEF Remark
  <2> QED BY <1>1, <2>1, <2>2, QuietStep
<1>7. CASE Settle
  <2>1. SameSignals BY <1>7, LotsUnchanged DEF Settle, db
  <2> DEFINE x == [do |-> "ladder", left |-> <<>>, bar |-> Head(todo).bar]
  <2>2. \A deps : Harmless(Loop(x, deps)) BY HarmlessLoop
  <2>3. Harmless(todo') BY <1>7, <1>5, <2>2 DEF Settle
  <2> QED BY <1>1, <2>1, <2>3, QuietStep
<1>8. CASE Mark
  <2>1. SameSignals BY <1>8, RowMarked DEF Mark
  <2>2. Harmless(todo') BY <1>8, <1>2, <1>3 DEF Mark
  <2> QED BY <1>1, <2>1, <2>2, QuietStep
<1>9. CASE Exit
  <2>1. CASE Then(Others) /\ UNCHANGED lots
    BY <2>1, <1>1, <1>2, <1>3, LotsUnchanged, QuietStep
  <2>2. ASSUME NEW id, NEW status, NEW raw, NEW at, BeginClose(id, status, raw, at)
        PROVE SignalInv'
    <3> DEFINE x == [do |-> "close", id |-> id, status |-> status,
                     raw |-> raw, at |-> at, cost |-> AcquisitionCost(id)]
    <3>1. CASE Raise /\ UNCHANGED lots
      BY <3>1, <1>1, <1>4, LotsUnchanged, QuietStep
    <3>2. CASE /\ MarkRow(id, AcquisitionCost(id), ViewOf(id).target, 0, raw)
               /\ Then(<<x>> \o Others)
      <4>1. SameSignals BY <3>2, RowMarked
      <4>2. Harmless(<<x>> \o Others) BY <1>2, HarmlessOne, HarmlessConcat
      <4> QED BY <3>2, <1>1, <1>3, <4>1, <4>2, QuietStep
    <3> QED BY <2>2, <3>1, <3>2 DEF BeginClose
  <2> QED BY <1>9, <2>1, <2>2 DEF Exit
<1>10. CASE Close
  <2> DEFINE step == Head(todo)
             n == step.id
             price == SellPrice(step.raw)
             pnl == (price - 2 * UnitFee) * lots[n].qty - step.cost
             row == [lots[n] EXCEPT !.status = step.status, !.exitAt = step.at,
                                    !.cost = step.cost, !.pnl = pnl,
                                    !.unreal = 0, !.last = price]
             x == [do |-> "sell", id |-> n, price |-> price, at |-> step.at]
  <2>1. lots' = IF lots[n].status # "OPEN" THEN lots ELSE [lots EXCEPT ![n] = row]
    BY <1>10 DEF Close
  <2>2. n \in DOMAIN lots => "sig" \in DOMAIN lots[n] BY DEF SignalInv
  <2>3. n \in DOMAIN lots => "sig" \in DOMAIN row /\ row.sig = lots[n].sig BY <2>2
  <2> HIDE DEF row
  <2>4. SameSignals BY <2>1, <2>3, LotsUnchanged, LotUpdated
  <2>5. Harmless(<<x>>) BY HarmlessOne
  <2>6. Harmless(todo') BY <1>10, <1>3, <2>5 DEF Close
  <2> QED BY <1>1, <2>4, <2>6, QuietStep
<1> QED BY <1>6, <1>7, <1>8, <1>9, <1>10

\* The handlers and the environment: what they start is harmless.
LEMMA StartSteps ==
  ASSUME SignalInv,
         \/ \E d \in Deployments : OnSignal(d) \/ ReconcileWorkers(d)
         \/ \E ch \in Channels : OnCandle(ch)
         \/ \E id \in Ids(openLots) : CloseLotManually(id)
         \/ ResetAccount \/ PrintBar \/ Crash \/ DatabaseError
         \/ StartStandby \/ TakeOver
         \/ UNCHANGED vars
  PROVE SignalInv'
<1>0. UNCHANGED orders
  BY DEF OnSignal, ReconcileWorkers, OnCandle, CloseLotManually, ResetAccount, PrintBar,
         Crash, TakeOver, OwnerEnds, StartStandby, DatabaseError, vars, db
<1>1. OrdersGrow BY <1>0, OrdersUnchanged
<1>2. ASSUME UNCHANGED <<lots, todo>> PROVE SignalInv'
  BY <1>0, <1>2 DEF SignalInv, Proper, OneLotPerSignal, Filled, Insertable
<1>3. ASSUME UNCHANGED lots, Harmless(todo') PROVE SignalInv'
  BY <1>1, <1>3, LotsUnchanged, QuietStep
<1>4. ASSUME NEW d \in Deployments, OnSignal(d) PROVE SignalInv'
  <2> DEFINE ts == LatestBar(d)
             p == [sig |-> <<d, ts>>, dep |-> d, ts |-> ts, price |-> tape[ts + Span(d)].c,
                   created |-> Now, cycle |-> 0, num |-> 0]
             x == [do |-> "persist", p |-> p]
             y == [do |-> "fill", p |-> p, ref |-> p.price, ts |-> ts]
  <2>1. Harmless(<<x>>) BY HarmlessOne
  <2>2. Harmless(<<y>>) BY HarmlessOne
  <2>3. UNCHANGED lots BY <1>4 DEF OnSignal, db
  <2>4. \/ UNCHANGED todo \/ todo' = <<x>> \/ todo' = <<y>> BY <1>4 DEF OnSignal
  <2> QED BY <1>2, <1>3, <2>1, <2>2, <2>3, <2>4
<1>5. ASSUME NEW d \in Deployments, ReconcileWorkers(d) PROVE SignalInv'
  BY <1>2, <1>5 DEF ReconcileWorkers, db, handler
<1>6. ASSUME NEW ch \in Channels, OnCandle(ch) PROVE SignalInv'
  <2> DEFINE bar == BarAt(NextTs(ch), FeedLen(ch))
             x == [do |-> "consider", left |-> <<>>, bar |-> bar, ch |-> ch]
             y == [do |-> "sweep", bar |-> bar, ch |-> ch]
  <2>1. Harmless(Loop(x, queue)) /\ Harmless(<<y>>) BY HarmlessOne, HarmlessLoop
  <2>2. Harmless(Loop(x, queue) \o <<y>>) BY <2>1, HarmlessConcat
  <2>3. UNCHANGED lots /\ todo' = Loop(x, queue) \o <<y>> BY <1>6 DEF OnCandle, db
  <2> QED BY <1>3, <2>2, <2>3
<1>7. ASSUME NEW id \in Ids(openLots), CloseLotManually(id) PROVE SignalInv'
  <2> DEFINE price == ViewOf(id).last
             x == [do |-> "close", id |-> id, status |-> "CLOSED",
                   raw |-> price, at |-> Now, cost |-> AcquisitionCost(id)]
             y == [do |-> "remark", close |-> price]
  <2>1. CASE UNCHANGED <<lots, todo>> BY <2>1, <1>2
  <2>2. CASE /\ MarkRow(id, AcquisitionCost(id), ViewOf(id).target, 0, price)
             /\ todo' = <<x, y>>
    <3>1. SameSignals BY <2>2, RowMarked
    <3>2. Harmless(<<x, y>>) BY HarmlessTwo
    <3> QED BY <2>2, <1>1, <3>1, <3>2, QuietStep
  <2> QED BY <1>7, <2>1, <2>2 DEF CloseLotManually
<1>8. CASE ResetAccount
  <2> DEFINE x == [do |-> "wipe"]
  <2>1. Harmless(<<x>>) BY HarmlessOne
  <2> QED BY <1>8, <1>3, <2>1 DEF ResetAccount
<1>9. CASE PrintBar BY <1>9, <1>2 DEF PrintBar, db, handler
<1>10. CASE Crash \/ TakeOver BY <1>10, <1>3, HarmlessEmpty DEF Crash, TakeOver, OwnerEnds, db
<1>11. CASE DatabaseError BY <1>11, <1>3, HarmlessEmpty DEF DatabaseError, Raise, db
<1>12. CASE StartStandby \/ UNCHANGED vars BY <1>12, <1>2 DEF StartStandby, vars, db, handler
<1> QED BY <1>4, <1>5, <1>6, <1>7, <1>8, <1>9, <1>10, <1>11, <1>12

\* An order is inserted: the frames below the one that runs stay.
LEMMA OrderInserted == ASSUME SignalInv, NEW row, orders' = Append(orders, row)
                       PROVE OrdersGrow
  BY ProperAppend DEF SignalInv, OrdersGrow

\* _fill_entry up to its order: a lot follows only when the unique index let
\* the first filled order of the signal in.
LEMMA FillEntryStep == ASSUME SignalInv, FillEntry PROVE SignalInv'
<1> PICK sig : sig = Head(todo).p.sig OBVIOUS
<1> PICK lot : lot = NewLot(Head(todo).p, Head(todo).ref, Head(todo).ts) OBVIOUS
<1> DEFINE order(status) == [sig |-> sig, status |-> status]
           x == [do |-> "lot", lot |-> lot]
<1>0. UNCHANGED lots /\ todo # <<>> BY DEF FillEntry, Doing
<1>1. SameSignals BY <1>0, LotsUnchanged
<1>2. Harmless(Tail(todo)) BY <1>0, HarmlessTail
<1>3. \/ OrdersGrow /\ Then(<<>>)
      \/ /\ orders' = Append(orders, order("FILLED")) /\ ~OrderConflict(sig)
         /\ Then(<<x>>)
  <2>1. \/ orders' = Append(orders, order("REJECTED")) /\ Then(<<>>)
        \/ UNCHANGED orders /\ Then(<<>>)
        \/ /\ orders' = Append(orders, order("FILLED")) /\ ~OrderConflict(sig)
           /\ Then(<<x>>)
     BY DEF FillEntry
  <2> QED BY <2>1, OrderInserted, OrdersUnchanged
<1>4. CASE OrdersGrow /\ Then(<<>>)
  <2>1. Harmless(todo') BY <1>0, <1>4, HarmlessEmpty, HarmlessThen
  <2> QED BY <1>1, <1>4, <2>1, QuietStep
<1>5. CASE /\ orders' = Append(orders, order("FILLED")) /\ ~OrderConflict(sig)
           /\ Then(<<x>>)
  <2>1. OrdersGrow BY <1>5, OrderInserted
  <2>2. "sig" \in DOMAIN lot /\ lot.sig = sig BY DEF NewLot
  <2>3. "do" \in DOMAIN x /\ x.lot = lot OBVIOUS
  <2>4. Filled(sig)'
    <3>1. /\ Len(orders) + 1 \in DOMAIN orders'
          /\ orders'[Len(orders) + 1] = order("FILLED")
      BY <1>5, ProperAppend, ProperDomain DEF SignalInv
    <3> QED BY <3>1 DEF Filled
  <2>5. sig # NoSignal => ~Filled(sig)
    BY <1>5 DEF OrderConflict, Filled, ToSet
  <2>6. sig # NoSignal => \A i \in DOMAIN lots : lots[i].sig # sig
    BY <2>5 DEF SignalInv
  <2>7. Insertable(lot)'
    BY <1>0, <2>2, <2>4, <2>6 DEF Insertable, NoSignal
  <2>8. todo' = <<x>> \o Tail(todo) BY <1>5 DEF Then
  <2>9. Proper(<<x>>) /\ DOMAIN <<x>> = {1} /\ Len(<<x>>) = 1 /\ <<x>>[1] = x
    <3> HIDE DEF x
    <3>1. <<x>> \in Seq({x}) OBVIOUS
    <3>2. DOMAIN <<x>> = {1} /\ Len(<<x>>) = 1 /\ <<x>>[1] = x OBVIOUS
    <3>3. Proper(<<x>>) BY <3>1, ProperSeq
    <3> QED BY <3>2, <3>3
  <2> HIDE DEF x
  <2>10. Proper(Tail(todo)) BY <1>2 DEF Harmless
  <2>11. Proper(todo)' BY <2>8, <2>9, <2>10, ProperConcat DEF Proper
  <2>12. ASSUME NEW k \in DOMAIN todo'
         PROVE /\ "do" \in DOMAIN todo'[k]
               /\ todo'[k].do = "lot" => k = 1 /\ todo'[k] = x
    <3>1. \/ k \in DOMAIN <<x>> /\ todo'[k] = <<x>>[k]
          \/ k - Len(<<x>>) \in DOMAIN Tail(todo) /\ todo'[k] = Tail(todo)[k - Len(<<x>>)]
      BY <2>8, <2>9, <2>10, ProperConcat
    <3>2. CASE k \in DOMAIN <<x>> /\ todo'[k] = <<x>>[k]
      BY <3>2, <2>3, <2>9
    <3>3. CASE k - Len(<<x>>) \in DOMAIN Tail(todo) /\ todo'[k] = Tail(todo)[k - Len(<<x>>)]
      BY <3>3, <1>2 DEF Harmless
    <3> QED BY <3>1, <3>2, <3>3
  <2>13. (\A k \in DOMAIN todo : "do" \in DOMAIN todo[k])' BY <2>12
  <2>14. (\A k \in DOMAIN todo : todo[k].do = "lot" => k = 1 /\ Insertable(todo[k].lot))'
    <3> SUFFICES ASSUME NEW k \in DOMAIN todo', todo'[k].do = "lot"
                 PROVE k = 1 /\ Insertable(todo[k].lot)'
      OBVIOUS
    <3>1. k = 1 /\ todo'[k] = x BY <2>12
    <3>2. todo'[k].lot = lot BY <3>1, <2>3
    <3> QED BY <3>1, <3>2, <2>7 DEF Insertable, Filled
  <2>15. (\A i \in DOMAIN lots : lots[i].sig # NoSignal => Filled(lots[i].sig))'
    BY <1>0, <2>1 DEF SignalInv, OrdersGrow, Filled, NoSignal
  <2>16. Proper(orders)' /\ Proper(lots)'
    BY <1>1, <2>1 DEF OrdersGrow, SameSignals, Proper
  <2>17. OneLotPerSignal' /\ (\A i \in DOMAIN lots : "sig" \in DOMAIN lots[i])'
    BY <1>0 DEF SignalInv, OneLotPerSignal, NoSignal
  <2> QED BY <2>11, <2>13, <2>14, <2>15, <2>16, <2>17 DEF SignalInv
<1> QED BY <1>3, <1>4, <1>5

\* lots.insert() stores the lot the frame carries, the first of its signal.
LEMMA InsertLotStep == ASSUME SignalInv, InsertLot PROVE SignalInv'
<1> PICK lot : lot = Head(todo).lot OBVIOUS
<1> DEFINE x == Step("buy", Len(lots) + 1)
<1>0. UNCHANGED orders /\ todo # <<>> /\ Head(todo).do = "lot"
  BY DEF InsertLot, Doing
<1>1. Harmless(todo')
  <2>1. Harmless(<<x>>) BY HarmlessOne DEF Step
  <2> QED BY <1>0, <2>1, HarmlessThen DEF InsertLot
<1>2. Insertable(lot) BY <1>0, HarmlessTail DEF SignalInv
<1>3. lots' = Append(lots, lot) BY DEF InsertLot
<1>4. /\ Proper(lots')
      /\ \A i \in DOMAIN lots' : \/ i \in DOMAIN lots /\ lots'[i] = lots[i]
                                 \/ i = Len(lots) + 1 /\ lots'[i] = lot
  BY <1>3, ProperAppend DEF SignalInv
<1>5. \A i \in DOMAIN lots' : "sig" \in DOMAIN lots'[i]
  BY <1>2, <1>4 DEF SignalInv, Insertable
<1>6. \A i \in DOMAIN lots' : lots'[i].sig # NoSignal => Filled(lots'[i].sig)
  BY <1>2, <1>4 DEF SignalInv, Insertable
<1>7. (\A i \in DOMAIN lots : lots[i].sig # NoSignal => Filled(lots[i].sig))'
  BY <1>0, <1>6 DEF Filled, NoSignal
<1>8. OneLotPerSignal'
  <2> SUFFICES ASSUME NEW i \in DOMAIN lots', NEW j \in DOMAIN lots',
                      lots'[i].sig = lots'[j].sig, lots'[i].sig # NoSignal
               PROVE i = j
    BY DEF OneLotPerSignal, NoSignal
  <2>1. CASE i \in DOMAIN lots /\ lots'[i] = lots[i] /\ j \in DOMAIN lots /\ lots'[j] = lots[j]
    BY <2>1 DEF SignalInv, OneLotPerSignal
  <2>2. CASE i \in DOMAIN lots /\ lots'[i] = lots[i] /\ lots'[j] = lot
    BY <2>2, <1>2 DEF Insertable
  <2>3. CASE lots'[i] = lot /\ j \in DOMAIN lots /\ lots'[j] = lots[j]
    BY <2>3, <1>2 DEF Insertable
  <2> QED BY <1>4, <2>1, <2>2, <2>3
<1>9. Proper(orders)' /\ Proper(lots)' /\ Proper(todo)'
  BY <1>0, <1>1, <1>4 DEF SignalInv, Harmless, Proper
<1>10. (\A k \in DOMAIN todo : "do" \in DOMAIN todo[k] /\ todo[k].do # "lot")'
  BY <1>1 DEF Harmless
<1> QED BY <1>5, <1>7, <1>8, <1>9, <1>10 DEF SignalInv

\* reset() empties the tables.
LEMMA WipeStep == ASSUME SignalInv, Wipe PROVE SignalInv'
<1>0. orders' = <<>> /\ lots' = <<>> /\ todo # <<>> BY DEF Wipe, Doing
<1>1. Harmless(todo') BY <1>0, HarmlessEmpty, HarmlessThen DEF Wipe
<1>2. Proper(orders)' /\ Proper(lots)' /\ Proper(todo)' /\ DOMAIN lots' = {}
  BY <1>0, <1>1, ProperEmpty DEF Harmless, Proper
<1>3. (\A k \in DOMAIN todo : "do" \in DOMAIN todo[k] /\ todo[k].do # "lot")'
  BY <1>1 DEF Harmless
<1>4. OneLotPerSignal' BY <1>2 DEF OneLotPerSignal
<1> QED BY <1>2, <1>3, <1>4 DEF SignalInv
-----------------------------------------------------------------------------
\* The invariant holds in every reachable state: a lot of a signal rests on a
\* filled order of it, and the handler inserts a lot only right after the
\* first such order was stored (_fill_entry, paper_orders_one_per_signal).
THEOREM SignalInvariant == Spec => []SignalInv
<1>1. Init => SignalInv
  <2> SUFFICES ASSUME Init PROVE SignalInv OBVIOUS
  <2>1. orders = <<>> /\ lots = <<>> /\ todo = <<>> BY DEF Init
  <2> QED BY <2>1, ProperEmpty DEF SignalInv, OneLotPerSignal
<1>2. SignalInv /\ [Next]_vars => SignalInv'
  <2> SUFFICES ASSUME SignalInv, [Next]_vars PROVE SignalInv' OBVIOUS
  <2>1. CASE HandlerStep
    BY <2>1, OtherSteps, RowSteps, FillEntryStep, InsertLotStep, WipeStep DEF HandlerStep
  <2>2. CASE ~HandlerStep BY <2>2, StartSteps DEF Next
  <2> QED BY <2>1, <2>2
<1> QED BY <1>1, <1>2, PTL DEF Spec

\* A signal opens at most one lot, for every configuration, tape and number of
\* crashes, database errors, restarts and resets (OneLotPerSignal).
THEOREM OneLotPerSignalHolds == Spec => []OneLotPerSignal
<1>1. SignalInv => OneLotPerSignal BY DEF SignalInv
<1> QED BY <1>1, SignalInvariant, PTL
-----------------------------------------------------------------------------
(* The FIFO queue of the broker. *)

\* The cost of all slices, and of what a sale takes, are numbers.
LEMMA CostsAreNumbers ==
  ASSUME NEW slices \in Seq(Slices), NEW qty \in Nat
  PROVE  Cost(slices) \in Int /\ Quantity(slices) \in Nat /\ MatchCost(slices, qty) \in Int
<1>1. Slices = FifoSlices(Nat) BY DEF Slices, FifoSlices
<1>2. slices \in Seq(FifoSlices(Nat)) BY <1>1
<1> QED BY <1>2, QueueCosts

\* A sale of what there is leaves a queue that holds so much less, at so much less cost.
LEMMA SaleIsMatched ==
  ASSUME NEW slices \in Seq(Slices), NEW qty \in Nat, qty <= Quantity(slices)
  PROVE  /\ Consume(slices, qty) \in Seq(Slices)
         /\ Quantity(Consume(slices, qty)) = Quantity(slices) - qty
         /\ Cost(Consume(slices, qty)) = Cost(slices) - MatchCost(slices, qty)
<1>1. Slices = FifoSlices(Nat) BY DEF Slices, FifoSlices
<1>2. slices \in Seq(FifoSlices(Nat)) BY <1>1
<1>3. /\ Consume(slices, qty) \in Seq(FifoSlices(Nat))
      /\ Quantity(Consume(slices, qty)) = Quantity(slices) - qty
      /\ Cost(Consume(slices, qty)) = Cost(slices) - MatchCost(slices, qty) BY <1>2, QueueSale
<1> QED BY <1>1, <1>3

Bought(slices, lot, price, qty) ==
    slices \in Seq(Slices) /\ lot \in Nat /\ price \in Nat \ {0} /\ qty \in Nat \ {0}
Added(more, slices, price, qty) ==
    /\ more \in Seq(Slices)
    /\ Quantity(more) = Quantity(slices) + qty /\ Cost(more) = Cost(slices) + price * qty

\* A purchase adds its units and its cost to the queue.
LEMMA PurchaseIsAdded ==
  ASSUME NEW slices, NEW lot, NEW price, NEW qty, Bought(slices, lot, price, qty)
  PROVE  Added(Add(slices, lot, price, qty), slices, price, qty)
<1>1. Slices = FifoSlices(Nat) BY DEF Slices, FifoSlices
<1>2. QueueBuy(Nat, slices, lot, price, qty) BY <1>1 DEF Bought, QueueBuy
<1>3. QueueHas(Nat, Add(slices, lot, price, qty), slices, price, qty) BY <1>2, QueuePurchase
<1> QED BY <1>1, <1>3 DEF Added, QueueHas
-----------------------------------------------------------------------------
IsKept(f, list, places, n) ==
    f = [k \in 0..n |-> IF k = 0 THEN <<>>
                        ELSE IF k \in places THEN Append(f[k - 1], list[k]) ELSE f[k - 1]]

\* The recursion of Only defines a function.
LEMMA KeptExists ==
  ASSUME NEW list, NEW places, NEW n \in Nat PROVE \E f : IsKept(f, list, places, n)
<1> DEFINE S == {m \in Nat : \E f : IsKept(f, list, places, m)}
<1>1. 0 \in S
  <2>1. IsKept([k \in 0..0 |-> <<>>], list, places, 0) BY DEF IsKept
  <2> QED BY <2>1
<1>2. ASSUME NEW m \in Nat, m \in S PROVE m + 1 \in S
  <2>1. PICK f : IsKept(f, list, places, m) BY <1>2
  <2> DEFINE last == IF m + 1 \in places THEN Append(f[m], list[m + 1]) ELSE f[m]
             g == [k \in 0..(m + 1) |-> IF k <= m THEN f[k] ELSE last]
  <2>2. IsKept(g, list, places, m + 1)
    <3>1. \A k \in 0..m : f[k] = IF k = 0 THEN <<>> ELSE IF k \in places THEN Append(f[k - 1], list[k]) ELSE f[k - 1]
      BY <2>1 DEF IsKept
    <3>2. \A k \in 0..(m + 1) :
            g[k] = IF k = 0 THEN <<>> ELSE IF k \in places THEN Append(g[k - 1], list[k]) ELSE g[k - 1]
      <4> TAKE k \in 0..(m + 1)
      <4>1. CASE k <= m
        <5>1. k \in 0..m /\ (k # 0 => k - 1 \in 0 .. (m + 1) /\ k - 1 <= m) BY <4>1
        <5>2. g[k] = f[k] /\ (k # 0 => g[k - 1] = f[k - 1]) BY <5>1, <4>1
        <5> QED BY <5>1, <5>2, <3>1
      <4>2. CASE k = m + 1
        <5>1. k # 0 /\ k - 1 = m /\ ~ (k <= m) /\ m \in 0 .. (m + 1) /\ m <= m BY <4>2
        <5>2. g[k] = last /\ g[k - 1] = f[m] BY <5>1
        <5> QED BY <5>1, <5>2, <4>2
      <4> QED BY <4>1, <4>2
    <3> HIDE DEF g
    <3>3. g = [k \in 0..(m + 1) |-> g[k]] BY DEF g
    <3> QED BY <3>2, <3>3 DEF IsKept
  <2> QED BY <2>2
<1> HIDE DEF S
<1>3. n \in S BY <1>1, <1>2, CountUp
<1> QED BY <1>3 DEF S

LEMMA OnlyIs ==
  ASSUME NEW list, NEW places, Len(list) \in Nat
  PROVE  \E f : IsKept(f, list, places, Len(list)) /\ Only(list, places) = f[Len(list)]
<1> DEFINE n == Len(list)
           step(f, k) == IF k = 0 THEN <<>> ELSE IF k \in places THEN Append(f[k - 1], list[k]) ELSE f[k - 1]
           h == CHOOSE f : f = [k \in 0..n |-> step(f, k)]
<1>1. \E f : f = [k \in 0..n |-> step(f, k)]
  <2>1. PICK f : IsKept(f, list, places, n) BY KeptExists
  <2> QED BY <2>1 DEF IsKept
<1>2. h = [k \in 0..n |-> step(h, k)]
  <2> HIDE DEF step
  <2> QED BY <1>1
<1>4. Only(list, places) = h[n] BY DEF Only
<1> HIDE DEF h, n
<1>3. IsKept(h, list, places, n) BY <1>2 DEF IsKept
<1> QED BY <1>3, <1>4 DEF n

\* f names the places up to n, in their order; v adds up over them.
Enumerates(f, places, n) ==
    /\ f \in Seq(1..n)
    /\ \A a, b \in 1..Len(f) : a < b => f[a] < f[b]
    /\ \A a \in 1..Len(f) : f[a] \in places
    /\ \A i \in 1..n : i \in places => \E a \in 1..Len(f) : f[a] = i

Masked(v, places, n) == [i \in 1..n |-> IF i \in places THEN v[i] ELSE 0]
Chosen(v, f) == [a \in 1..Len(f) |-> v[f[a]]]

IsOnly(f, r, list, places, v, n) ==
    /\ Enumerates(f, places, n)
    /\ r = Chosen(list, f)
    /\ SumTo(Chosen(v, f), Len(f)) = SumTo(Masked(v, places, n), n)

LEMMA OnlyEnumerates ==
  ASSUME NEW list, NEW places, NEW v, Len(list) \in Nat, \A i \in 1..Len(list) : v[i] \in Int
  PROVE  \E f : IsOnly(f, Only(list, places), list, places, v, Len(list))
<1> DEFINE len == Len(list)
<1>1. PICK kept : IsKept(kept, list, places, len) /\ Only(list, places) = kept[len] BY OnlyIs
<1>2. \A k \in 0..len : kept[k] = IF k = 0 THEN <<>>
                                  ELSE IF k \in places THEN Append(kept[k - 1], list[k]) ELSE kept[k - 1]
  BY <1>1 DEF IsKept
<1> DEFINE S == {n \in Nat : n <= len => \E f : IsOnly(f, kept[n], list, places, v, n)}
<1>3. 0 \in S
  <2>1. kept[0] = <<>> BY <1>2
  <2> DEFINE none == Chosen(v, <<>>)
  <2>2. <<>> \in Seq(1..0) /\ Len(<<>>) = 0 OBVIOUS
  <2>3. Enumerates(<<>>, places, 0) BY <2>2 DEF Enumerates
  <2>4. kept[0] = Chosen(list, <<>>) BY <2>1 DEF Chosen
  <2>5. SumTo(Chosen(v, <<>>), 0) = 0 /\ SumTo(Masked(v, places, 0), 0) = 0 BY SumStep
  <2>6. IsOnly(<<>>, kept[0], list, places, v, 0) BY <2>2, <2>3, <2>4, <2>5 DEF IsOnly
  <2> QED BY <2>6
<1>4. ASSUME NEW n \in Nat, n \in S PROVE n + 1 \in S
  <2> SUFFICES ASSUME n + 1 <= len PROVE \E f : IsOnly(f, kept[n + 1], list, places, v, n + 1) OBVIOUS
  <2>1. PICK f : IsOnly(f, kept[n], list, places, v, n) BY <1>4
  <2> DEFINE m == Len(f)
             x == n + 1
  <2>2. /\ f \in Seq(1..n) /\ m \in Nat /\ DOMAIN f = 1..m
        /\ \A a \in 1..m : f[a] \in 1..n /\ f[a] \in places
        /\ \A a, b \in 1..m : a < b => f[a] < f[b]
        /\ \A i \in 1..n : i \in places => \E a \in 1..m : f[a] = i
    <3>1. Enumerates(f, places, n) BY <2>1 DEF IsOnly
    <3>2. f \in Seq(1..n) BY <3>1 DEF Enumerates
    <3> DEFINE T == 1..n
    <3> HIDE DEF T
    <3>5. f \in Seq(T) BY <3>2 DEF T
    <3>6. m \in Nat /\ DOMAIN f = 1..m /\ \A a \in 1..m : f[a] \in T BY <3>5
    <3>3. m \in Nat /\ DOMAIN f = 1..m /\ \A a \in 1..m : f[a] \in 1..n BY <3>6 DEF T
    <3>4. /\ \A a \in 1..m : f[a] \in places
          /\ \A a, b \in 1..m : a < b => f[a] < f[b]
          /\ \A i \in 1..n : i \in places => \E a \in 1..m : f[a] = i
      BY <3>1 DEF Enumerates
    <3> QED BY <3>2, <3>3, <3>4
  <2>3. kept[n] = Chosen(list, f) BY <2>1 DEF IsOnly
  <2>4. SumTo(Chosen(v, f), m) = SumTo(Masked(v, places, n), n) BY <2>1 DEF IsOnly
  <2>5. /\ x \in 0..len /\ x \in Nat \ {0} /\ x - 1 = n /\ x \in 1..len BY <2>2
  <2>6. kept[x] = IF x \in places THEN Append(kept[n], list[x]) ELSE kept[n]
    <3>1. kept[x] = IF x = 0 THEN <<>> ELSE IF x \in places THEN Append(kept[x - 1], list[x]) ELSE kept[x - 1]
      BY <1>2, <2>5
    <3> HIDE DEF x
    <3> QED BY <2>5, <3>1
  <2>7. SumTo(Masked(v, places, x), x) = SumTo(Masked(v, places, n), n) + (IF x \in places THEN v[x] ELSE 0)
    <3>1. \A i \in 1..n : Masked(v, places, x)[i] = Masked(v, places, n)[i] BY DEF Masked
    <3>2. SumTo(Masked(v, places, x), n) = SumTo(Masked(v, places, n), n) BY <3>1, SumOfSame
    <3>3. SumTo(Masked(v, places, x), x) = SumTo(Masked(v, places, x), n) + Masked(v, places, x)[x] BY SumStep
    <3>4. Masked(v, places, x)[x] = IF x \in places THEN v[x] ELSE 0 BY <2>5 DEF Masked
    <3> QED BY <3>2, <3>3, <3>4
  <2>8. CASE x \in places
    <3> DEFINE g == Append(f, x)
    <3>1. /\ g \in Seq(1..x) /\ Len(g) = m + 1 /\ DOMAIN g = 1..(m + 1) /\ g[m + 1] = x
          /\ \A a \in 1..m : g[a] = f[a]
      <4>1. f \in Seq(1..x) BY <2>2, <2>5
      <4> HIDE DEF x
      <4>2. x \in 1..x BY <2>5
      <4> QED BY <2>2, <4>1, <4>2
    <3> HIDE DEF g
    <3>2. Enumerates(g, places, x)
      <4>1. \A a, b \in 1..Len(g) : a < b => g[a] < g[b]
        <5> SUFFICES ASSUME NEW a \in 1..(m + 1), NEW b \in 1..(m + 1), a < b PROVE g[a] < g[b] BY <3>1
        <5>1. a \in 1..m BY <2>2
        <5>2. CASE b \in 1..m BY <2>2, <3>1, <5>1, <5>2
        <5>3. CASE b = m + 1
          <6>1. g[a] = f[a] /\ f[a] \in 1..n /\ g[b] = n + 1 BY <2>2, <3>1, <5>1, <5>3
          <6> QED BY <6>1
        <5>4. m \in Nat BY <2>2
        <5>5. b \in 1..m \/ b = m + 1
          <6> HIDE DEF m
          <6> QED BY <5>4
        <5> QED BY <5>2, <5>3, <5>5
      <4>2. \A a \in 1..Len(g) : g[a] \in places
        <5> SUFFICES ASSUME NEW a \in 1..(m + 1) PROVE g[a] \in places BY <3>1
        <5>1. a \in 1..m \/ a = m + 1 BY <2>2
        <5> QED BY <2>2, <2>8, <3>1, <5>1
      <4>3. \A i \in 1..x : i \in places => \E a \in 1..Len(g) : g[a] = i
        <5> SUFFICES ASSUME NEW i \in 1..x, i \in places PROVE \E a \in 1..(m + 1) : g[a] = i BY <3>1
        <5>1. CASE i \in 1..n
          <6>1. PICK a \in 1..m : f[a] = i BY <2>2, <5>1
          <6>2. a \in 1..(m + 1) /\ g[a] = i BY <2>2, <3>1, <6>1
          <6> QED BY <6>2
        <5>2. CASE i = n + 1
          <6>1. m + 1 \in 1..(m + 1) BY <2>2
          <6> QED BY <3>1, <5>2, <6>1
        <5> QED BY <5>1, <5>2
      <4> QED BY <3>1, <4>1, <4>2, <4>3 DEF Enumerates
    <3>3. kept[x] = Chosen(list, g)
      <4>1. kept[x] = Append(Chosen(list, f), list[x]) BY <2>3, <2>6, <2>8
      <4>2. Chosen(list, f) \in Seq({list[i] : i \in 1..n}) /\ Len(Chosen(list, f)) = m
        <5>1. Chosen(list, f) \in [1..m -> {list[i] : i \in 1..n}] BY <2>2 DEF Chosen
        <5> QED BY <2>2, <5>1, SeqOfFunction
      <4>3. \A a \in 1..m : Chosen(list, f)[a] = list[f[a]] BY DEF Chosen
      <4>4. Chosen(list, g) = [a \in 1..(m + 1) |-> list[g[a]]] BY <3>1 DEF Chosen
      <4> DEFINE old == Chosen(list, f)
                 T == {list[i] : i \in 1..n}
      <4> HIDE DEF old, x, T
      <4>5. /\ Append(old, list[x]) = [a \in 1..(m + 1) |-> Append(old, list[x])[a]]
            /\ \A a \in 1..m : Append(old, list[x])[a] = old[a]
            /\ Append(old, list[x])[m + 1] = list[x]
        <5>1. old \in Seq(T \cup {list[x]}) /\ Len(old) = m BY <4>2 DEF old, T
        <5> QED BY <2>2, <5>1
      <4>6. \A a \in 1..(m + 1) : Append(old, list[x])[a] = list[g[a]]
        <5> TAKE a \in 1..(m + 1)
        <5>1. CASE a \in 1..m BY <3>1, <4>3, <4>5, <5>1 DEF old
        <5>2. CASE a = m + 1 BY <3>1, <4>5, <5>2
        <5>4. m \in Nat BY <2>2
        <5>5. a \in 1..m \/ a = m + 1
          <6> HIDE DEF m
          <6> QED BY <5>4
        <5> QED BY <5>1, <5>2, <5>5
      <4> QED BY <4>1, <4>4, <4>5, <4>6 DEF old
    <3>4. SumTo(Chosen(v, g), Len(g)) = SumTo(Masked(v, places, x), x)
      <4>1. \A a \in 1..m : Chosen(v, g)[a] = Chosen(v, f)[a]
        <5> TAKE a \in 1..m
        <5>1. a \in 1..(m + 1) BY <2>2
        <5> QED BY <3>1, <5>1 DEF Chosen
      <4>2. SumTo(Chosen(v, g), m) = SumTo(Chosen(v, f), m) BY <2>2, <4>1, SumOfSame
      <4>3. SumTo(Chosen(v, g), m + 1) = SumTo(Chosen(v, g), m) + Chosen(v, g)[m + 1] BY <2>2, SumStep
      <4>4. Chosen(v, g)[m + 1] = v[x]
        <5>1. m + 1 \in 1..Len(g) BY <2>2, <3>1
        <5> QED BY <3>1, <5>1 DEF Chosen
      <4> QED BY <2>4, <2>7, <2>8, <3>1, <4>2, <4>3, <4>4
    <3>5. IsOnly(g, kept[x], list, places, v, x) BY <3>2, <3>3, <3>4 DEF IsOnly
    <3> QED BY <3>5
  <2>9. CASE x \notin places
    <3>1. Enumerates(f, places, x)
      <4>1. f \in Seq(1..x) BY <2>2, <2>5
      <4>2. \A i \in 1..x : i \in places => \E a \in 1..Len(f) : f[a] = i
        <5> TAKE i \in 1..x
        <5> HAVE i \in places
        <5>1. i \in 1..n BY <2>9
        <5> QED BY <2>2, <5>1
      <4> QED BY <2>2, <4>1, <4>2 DEF Enumerates
    <3>2. kept[x] = Chosen(list, f) BY <2>3, <2>6, <2>9
    <3>3. SumTo(Masked(v, places, n), n) \in Int
      <4>1. \A i \in 1..n : Masked(v, places, n)[i] \in Int BY <2>5 DEF Masked
      <4> QED BY <4>1, SumIsInt
    <3>4. SumTo(Chosen(v, f), Len(f)) = SumTo(Masked(v, places, x), x) BY <2>4, <2>7, <2>9, <3>3
    <3>5. IsOnly(f, kept[x], list, places, v, x) BY <3>1, <3>2, <3>4 DEF IsOnly
    <3> QED BY <3>5
  <2> QED BY <2>8, <2>9
<1> HIDE DEF S
<1>5. len \in S BY <1>3, <1>4, CountUp
<1>6. \E f : IsOnly(f, kept[len], list, places, v, len) BY <1>5 DEF S
<1> QED BY <1>1, <1>6

-----------------------------------------------------------------------------
(***************************************************************************)
(* The books balance, for every configuration and tape, while the process  *)
(* lives.  Between the transactions of a fill or of an exit they are off   *)
(* by what the running frame has still to write.                           *)
(***************************************************************************)

\* The frames between two transactions of one fill or exit.
Tight == {"lot", "buy", "debit", "close", "sell", "credit"}

\* What is left to do once the fill or the exit that runs is done.
Loose(stack) == IF stack # <<>> /\ Head(stack).do \in Tight THEN Tail(stack) ELSE stack

Entries(s) == Proper(s) /\ \A a \in DOMAIN s : s[a].dep \in Deployments
Priced(bar) == bar.o \in Nat \ {0} /\ bar.c \in Int

\* A frame of none of the lots.
Quiet(x) ==
    /\ "do" \in DOMAIN x /\ x.do \notin Tight \cup {"exit"}
    /\ x.do = "persist" => x.p.dep \in Deployments
    /\ x.do = "fill" => x.p.dep \in Deployments /\ x.ref \in Nat \ {0}
    /\ x.do = "consider" => /\ {"left", "bar"} \subseteq DOMAIN x
                            /\ Entries(x.left) /\ x.left # <<>> /\ Priced(x.bar)
    /\ x.do \in {"remark", "mark"} => "close" \in DOMAIN x /\ x.close \in Int
    /\ x.do \in {"sweep", "settle"} => Priced(x.bar)

\* The loop over the lots that may leave: each of them once.
ExitLoop(x) ==
    /\ {"do", "left", "bar"} \subseteq DOMAIN x /\ x.do = "exit" /\ Priced(x.bar)
    /\ Proper(x.left) /\ x.left # <<>>
    /\ \A a, b \in DOMAIN x.left : x.left[a].id = x.left[b].id => a = b

Quiets(frames) == Proper(frames) /\ \A k \in DOMAIN frames : Quiet(frames[k])

\* At most the first frame is such a loop.
Rest(frames) ==
    /\ Proper(frames)
    /\ \A k \in DOMAIN frames : \/ Quiet(frames[k])
                                \/ k = 1 /\ ExitLoop(frames[k])

\* The lots that the exit loop has still to look at.
ToExit(frames) == IF frames # <<>> /\ Head(frames).do = "exit" THEN Head(frames).left ELSE <<>>

RowOK(row) ==
    /\ {"dep", "num", "entryPrice", "qty", "stop", "status", "pnl"} \subseteq DOMAIN row
    /\ row.dep \in Deployments
    /\ row.num \in Nat \ {0} /\ row.entryPrice \in Nat \ {0} /\ row.qty \in Nat \ {0}
    /\ row.stop \in Int /\ row.pnl \in Int
    /\ row.status = "OPEN" => row.pnl = 0

\* A row that was just made.
Fresh(row) == RowOK(row) /\ row.status = "OPEN" /\ row.target \in Int /\ row.last \in Int

\* The lot that leaves: its row is closed, its view still there.
Left(id) == (Doing("sell") \/ Doing("credit")) /\ Head(todo).id = id

ViewsOK ==
    /\ Proper(openLots)
    /\ \A i \in DOMAIN openLots :
          /\ openLots[i].id \in DOMAIN lots
          /\ openLots[i].target \in Int /\ openLots[i].last \in Int
          /\ lots[openLots[i].id].status = "OPEN" \/ Left(openLots[i].id)
    /\ \A i, j \in DOMAIN openLots : openLots[i].id = openLots[j].id => i = j

\* What holds of the views also after a handler was cut short: each has its row, and no row two.
Shown ==
    /\ Proper(openLots)
    /\ \A i \in DOMAIN openLots : openLots[i].id \in DOMAIN lots
    /\ \A i, j \in DOMAIN openLots : openLots[i].id = openLots[j].id => i = j

Viewed(id) == \E i \in DOMAIN openLots : openLots[i].id = id

InStock(id) == NSE => lots[id].qty <= Quantity(fifo)

\* What the frame that runs knows of its lot.
HeadOK ==
    LET x == Head(todo)
    IN  /\ Doing("lot") => Fresh(x.lot)
        /\ Doing("buy") \/ Doing("debit") =>
              x.id \in DOMAIN lots /\ Fresh(lots[x.id]) /\ ~Viewed(x.id)
        /\ Doing("close") =>
              /\ Viewed(x.id) /\ InStock(x.id) /\ x.raw \in Int /\ x.status # "OPEN"
              /\ x.cost = AcquisitionCost(x.id)
        /\ Doing("sell") =>
              /\ Viewed(x.id) /\ InStock(x.id) /\ x.price \in Int
              /\ lots[x.id].status # "OPEN"
              /\ lots[x.id].pnl = (x.price - 2 * UnitFee) * lots[x.id].qty - AcquisitionCost(x.id)
        /\ Doing("credit") =>
              /\ Viewed(x.id) /\ x.price \in Int /\ lots[x.id].status # "OPEN"
              /\ ~NSE => lots[x.id].pnl = ExitProceeds(x.price, lots[x.id].qty)
                                          - EntryCost(lots[x.id].entryPrice, lots[x.id].qty)

\* The lots of the exit loop are there, and none of them leaves already.
LoopOK ==
    LET left == ToExit(Loose(todo))
    IN  \A a \in DOMAIN left :
           /\ Viewed(left[a].id)
           /\ Doing("close") \/ Doing("sell") \/ Doing("credit") => left[a].id # Head(todo).id

\* A fill is never part of the exit loop.
FillOK == Doing("lot") \/ Doing("buy") \/ Doing("debit") => Quiets(Loose(todo))

StackOK == Proper(todo) /\ Rest(Loose(todo)) /\ HeadOK /\ LoopOK /\ FillOK

RowsOK == Proper(lots) /\ \A i \in DOMAIN lots : RowOK(lots[i])

MarketOK ==
    /\ tape \in Seq(Candles)
    /\ cursor \in [Channels \cup Deployments -> Int]
    /\ \A ch \in Channels \cup Deployments : cursor[ch] + FeedLen(ch) >= 0

Flows == Total([i \in DOMAIN trades |-> TradeFlow(trades[i])])
Booked == Total([i \in DOMAIN lots |-> lots[i].pnl])
Units == Total([i \in DOMAIN openLots |-> lots[openLots[i].id].qty])

\* How far the running frame is behind: in the account, in the inventory's cost, in units.
FlowGap ==
    LET id == Head(todo).id
    IN  IF Doing("debit") THEN EntryCost(lots[id].entryPrice, lots[id].qty)
        ELSE IF Doing("credit") THEN - ExitProceeds(Head(todo).price, lots[id].qty) ELSE 0
BookGap ==
    LET id == Head(todo).id
    IN  IF Doing("debit") /\ NSE THEN EntryCost(lots[id].entryPrice, lots[id].qty)
        ELSE IF Doing("credit") /\ NSE THEN - ExitProceeds(Head(todo).price, lots[id].qty)
        ELSE IF Doing("sell") \/ Doing("credit") THEN - lots[id].pnl ELSE 0
UnitGap ==
    LET id == Head(todo).id
    IN  IF Doing("debit") THEN lots[id].qty
        ELSE IF Doing("credit") THEN - lots[id].qty ELSE 0

BooksOK ==
    /\ cash \in Int /\ Flows \in Int /\ Proper(trades) /\ fifo \in Seq(Slices)
    /\ cash = StartingBalance + Flows + FlowGap
    /\ cash + InventoryCost = StartingBalance + Booked + BookGap
    /\ NSE => Quantity(fifo) = Units + UnitGap

\* The tape, the feeds and the instructions that wait.
Feeds == MarketOK /\ Entries(queue) /\ Entries(hold) /\ Entries(pending)

\* The lots, the views, the running handler and the books.
Ledger == RowsOK /\ ViewsOK /\ StackOK /\ BooksOK

LedgerInv ==
    /\ torn \in Nat /\ stale \in BOOLEAN
    /\ torn = 0 /\ ~stale => Feeds /\ Ledger

-----------------------------------------------------------------------------
(* Stacks of frames. *)

\* Between two transactions they are shown.
LEMMA ViewsAreShown == ViewsOK => Shown
  BY DEF ViewsOK, Shown

\* The first element and the others.
LEMMA ProperTail == ASSUME NEW s, Proper(s), s # <<>>
  PROVE /\ Proper(Tail(s)) /\ 1 \in DOMAIN s /\ Head(s) = s[1]
        /\ Len(Tail(s)) = Len(s) - 1
        /\ \A k \in DOMAIN Tail(s) : k + 1 \in DOMAIN s /\ Tail(s)[k] = s[k + 1]
<1> DEFINE S == ToSet(s)
<1>1. s \in Seq(S) BY DEF Proper
<1> HIDE DEF S
<1>2. Tail(s) \in Seq(S) /\ Len(s) \in Nat /\ Len(s) > 0 /\ DOMAIN s = 1..Len(s) BY <1>1
<1>3. DOMAIN Tail(s) = 1..(Len(s) - 1) /\ Len(Tail(s)) = Len(s) - 1 BY <1>1, <1>2
<1>4. \A k \in 1..(Len(s) - 1) : Tail(s)[k] = s[k + 1] BY <1>1, <1>2
<1>5. Head(s) = s[1] BY <1>1
<1>6. Proper(Tail(s)) BY <1>2, ProperSeq
<1> QED BY <1>2, <1>3, <1>4, <1>5, <1>6

\* Pushing nothing, and pushing one frame.
LEMMA PushNone == ASSUME NEW r, Proper(r) PROVE <<>> \o r = r
<1> DEFINE S == ToSet(r)
<1>1. r \in Seq(S) BY DEF Proper
<1> HIDE DEF S
<1> QED BY <1>1

\* One frame above the others.
LEMMA PushOne == ASSUME NEW x, NEW r, Proper(r)
  PROVE /\ Proper(<<x>> \o r) /\ <<x>> \o r # <<>>
        /\ Head(<<x>> \o r) = x /\ Tail(<<x>> \o r) = r
        /\ (<<x>> \o r)[1] = x
<1> DEFINE S == ToSet(r) \cup {x}
           s == <<x>> \o r
<1>1. r \in Seq(S) /\ x \in S BY DEF Proper
<1> HIDE DEF S
<1>2. <<x>> \in Seq(S) /\ Len(<<x>>) = 1 /\ <<x>>[1] = x BY <1>1
<1>3. s \in Seq(S) /\ Len(s) = 1 + Len(r) /\ Len(r) \in Nat BY <1>1, <1>2
<1>4. \A i \in 1..(1 + Len(r)) : s[i] = IF i <= 1 THEN <<x>>[i] ELSE r[i - 1] BY <1>1, <1>2
<1>5. s[1] = x BY <1>2, <1>3, <1>4
<1> HIDE DEF s
<1>6. s # <<>> /\ Head(s) = x BY <1>3, <1>5
<1>7. Tail(s) \in Seq(S) /\ Len(Tail(s)) = Len(r) BY <1>3, <1>6
<1>8. \A i \in 1..Len(r) : Tail(s)[i] = r[i]
  <2> TAKE i \in 1..Len(r)
  <2>1. Tail(s)[i] = s[i + 1] BY <1>3, <1>6
  <2>2. i + 1 \in 1..(1 + Len(r)) /\ ~ (i + 1 <= 1) /\ (i + 1) - 1 = i BY <1>3
  <2> QED BY <1>4, <2>1, <2>2 DEF s
<1>9. Tail(s) = r BY <1>1, <1>7, <1>8
<1>10. Proper(s) BY <1>3, ProperSeq
<1> QED BY <1>5, <1>6, <1>9, <1>10 DEF s

\* Quiet frames can be put together.
LEMMA QuietsConcat == ASSUME NEW f, NEW g, Quiets(f), Quiets(g) PROVE Quiets(f \o g)
<1>1. Proper(f) /\ Proper(g) BY DEF Quiets
<1>2. Proper(f \o g) BY <1>1, ProperConcat
<1>3. ASSUME NEW k \in DOMAIN (f \o g) PROVE Quiet((f \o g)[k])
  <2>1. CASE k \in DOMAIN f /\ (f \o g)[k] = f[k] BY <2>1 DEF Quiets
  <2>2. CASE k - Len(f) \in DOMAIN g /\ (f \o g)[k] = g[k - Len(f)] BY <2>2 DEF Quiets
  <2> QED BY <1>1, <2>1, <2>2, ProperConcat
<1> QED BY <1>2, <1>3 DEF Quiets

\* No frame at all is quiet.
LEMMA QuietsNone == Quiets(<<>>)
  BY ProperEmpty DEF Quiets

\* A quiet frame alone.
LEMMA QuietsOne == ASSUME NEW x, Quiet(x) PROVE Quiets(<<x>>)
<1>1. <<x>> \in Seq({x}) /\ DOMAIN <<x>> = {1} /\ <<x>>[1] = x OBVIOUS
<1>2. Proper(<<x>>) BY <1>1, ProperSeq
<1> QED BY <1>1, <1>2 DEF Quiets

\* Two quiet frames.
LEMMA QuietsTwo == ASSUME NEW x, NEW y, Quiet(x), Quiet(y) PROVE Quiets(<<x, y>>)
<1>1. <<x, y>> \in Seq({x, y}) /\ DOMAIN <<x, y>> = {1, 2}
      /\ <<x, y>>[1] = x /\ <<x, y>>[2] = y OBVIOUS
<1>2. Proper(<<x, y>>) BY <1>1, ProperSeq
<1> QED BY <1>1, <1>2 DEF Quiets

\* Below the first frame all are quiet.
LEMMA RestTail == ASSUME NEW s, Rest(s), s # <<>>
                  PROVE Quiets(Tail(s)) /\ (Quiet(Head(s)) \/ ExitLoop(Head(s)))
<1>1. /\ Proper(Tail(s)) /\ 1 \in DOMAIN s /\ Head(s) = s[1]
      /\ \A k \in DOMAIN Tail(s) : k + 1 \in DOMAIN s /\ Tail(s)[k] = s[k + 1]
  BY ProperTail DEF Rest
<1>2. \A k \in DOMAIN Tail(s) : k \in Nat /\ k # 0 BY <1>1, ProperDomain
<1>3. \A k \in DOMAIN Tail(s) : k + 1 # 1 BY <1>2
<1>4. \A k \in DOMAIN Tail(s) : Quiet(Tail(s)[k]) BY <1>1, <1>3 DEF Rest
<1> QED BY <1>1, <1>4 DEF Rest, Quiets

\* Quiet frames sell nothing.
LEMMA QuietsRest == ASSUME NEW s, Quiets(s)
                    PROVE Proper(s) /\ Rest(s) /\ Loose(s) = s /\ ToExit(s) = <<>>
<1>1. Proper(s) /\ Rest(s) BY DEF Quiets, Rest
<1>2. s # <<>> => Quiet(Head(s)) BY <1>1, ProperTail DEF Quiets
<1> QED BY <1>1, <1>2 DEF Loose, ToExit, Quiet

\* An exit loop above quiet frames, or nothing when it is done.
LEMMA ExitRest == ASSUME NEW x, NEW r, ExitLoop(x), Quiets(r)
  PROVE LET s == <<x>> \o r
        IN  Proper(s) /\ s # <<>> /\ Head(s) = x /\ Tail(s) = r
            /\ Rest(s) /\ Loose(s) = s /\ ToExit(s) = x.left
<1> DEFINE s == <<x>> \o r
<1>1. Proper(s) /\ s # <<>> /\ Head(s) = x /\ Tail(s) = r /\ s[1] = x
  BY PushOne DEF Quiets
<1> HIDE DEF s
<1>2. x.do = "exit" BY DEF ExitLoop
<1>3. Rest(s)
  <2> SUFFICES ASSUME NEW k \in DOMAIN s PROVE Quiet(s[k]) \/ (k = 1 /\ ExitLoop(s[k])) BY <1>1 DEF Rest
  <2>1. CASE k = 1 BY <1>1, <2>1
  <2>2. CASE k # 1
    <3>1. Len(s) \in Nat /\ DOMAIN s = 1..Len(s) /\ Len(r) = Len(s) - 1 /\ DOMAIN r = 1..Len(r)
      BY <1>1, ProperDomain, ProperTail DEF Quiets
    <3>2. k - 1 \in DOMAIN r /\ (k - 1) + 1 = k BY <2>2, <3>1
    <3>3. r[k - 1] = s[(k - 1) + 1] BY <1>1, <3>2, ProperTail
    <3> QED BY <3>2, <3>3 DEF Quiets
  <2> QED BY <2>1, <2>2
<1>4. Loose(s) = s BY <1>1, <1>2 DEF Loose, Tight
<1>5. ToExit(s) = x.left BY <1>1, <1>2 DEF ToExit
<1> QED BY <1>1, <1>3, <1>4, <1>5 DEF s

\* The frame that runs.
LEMMA HeadFrame == ASSUME StackOK, todo # <<>>
  PROVE /\ Head(todo).do \in Tight => Loose(todo) = Tail(todo) /\ Rest(Tail(todo)) /\ Proper(Tail(todo))
        /\ Head(todo).do = "exit" => Loose(todo) = todo /\ ExitLoop(Head(todo)) /\ Quiets(Tail(todo))
        /\ Head(todo).do \notin Tight \cup {"exit"} =>
              Loose(todo) = todo /\ Quiet(Head(todo)) /\ Quiets(Tail(todo))
<1>1. CASE Head(todo).do \in Tight
  <2>1. Loose(todo) = Tail(todo) BY <1>1 DEF Loose
  <2>2. "exit" \notin Tight BY DEF Tight
  <2> QED BY <1>1, <2>1, <2>2 DEF StackOK, Rest
<1>2. CASE Head(todo).do \notin Tight
  <2>1. Loose(todo) = todo BY <1>2 DEF Loose
  <2>2. Rest(todo) BY <2>1 DEF StackOK
  <2>3. Quiets(Tail(todo)) /\ (Quiet(Head(todo)) \/ ExitLoop(Head(todo))) BY <2>2, RestTail
  <2> QED BY <1>2, <2>1, <2>3 DEF Quiet, ExitLoop
<1> QED BY <1>1, <1>2

\* A tight frame above the others.
LEMMA TightPush == ASSUME NEW x, NEW r, x.do \in Tight, Rest(r)
  PROVE LET s == <<x>> \o r
        IN  s # <<>> /\ Head(s) = x /\ Tail(s) = r /\ Proper(s) /\ Loose(s) = r
<1> DEFINE s == <<x>> \o r
<1>1. s # <<>> /\ Head(s) = x /\ Tail(s) = r /\ Proper(s) BY PushOne DEF Rest
<1> HIDE DEF s
<1>2. Loose(s) = r BY <1>1 DEF Loose
<1> QED BY <1>1, <1>2 DEF s

-----------------------------------------------------------------------------
(* The stack after a step. *)

\* The stack after a step that leaves quiet frames only.
LEMMA StackQuiet == ASSUME Quiets(todo')
                    PROVE StackOK' /\ (todo' # <<>> => Quiet(Head(todo')))
<1> PICK s : s = todo' OBVIOUS
<1>1. Proper(s) /\ Rest(s) /\ Loose(s) = s /\ ToExit(s) = <<>> BY QuietsRest
<1>2. s # <<>> => Quiet(Head(s)) BY <1>1, ProperTail DEF Quiets
<1>3. s # <<>> => Head(s).do \notin Tight BY <1>2 DEF Quiet
<1>4. HeadOK' BY <1>3 DEF HeadOK, Doing, Tight
<1>5. LoopOK'
  <2>1. DOMAIN <<>> = {} BY ProperEmpty
  <2>2. ToExit(Loose(todo'))  = <<>> BY <1>1
  <2> QED BY <2>1, <2>2 DEF LoopOK
<1>6. FillOK' BY <1>3 DEF FillOK, Doing, Tight
<1> QED BY <1>1, <1>2, <1>4, <1>5, <1>6 DEF StackOK

\* The stack after a step that leaves the exit loop on top.
LEMMA StackExit ==
  ASSUME NEW x, NEW r, ExitLoop(x), Quiets(r), todo' = <<x>> \o r,
         \A a \in DOMAIN x.left : Viewed(x.left[a].id)'
  PROVE  StackOK' /\ todo' # <<>> /\ Head(todo') = x
<1> PICK s : s = todo' OBVIOUS
<1>1. s = <<x>> \o r OBVIOUS
<1>2. /\ Proper(s) /\ s # <<>> /\ Head(s) = x /\ Rest(s) /\ Loose(s) = s /\ ToExit(s) = x.left
  BY <1>1, ExitRest
<1>3. x.do = "exit" BY DEF ExitLoop
<1>4. HeadOK' BY <1>2, <1>3 DEF HeadOK, Doing
<1>5. LoopOK'
  <2>1. ToExit(Loose(todo')) = x.left BY <1>2
  <2> QED BY <1>2, <1>3, <2>1 DEF LoopOK, Doing
<1>6. FillOK' BY <1>2, <1>3 DEF FillOK, Doing
<1> QED BY <1>2, <1>4, <1>5, <1>6 DEF StackOK

\* The stack after a step between two transactions of a fill or an exit.
LEMMA StackTight ==
  ASSUME NEW x, NEW r, x.do \in Tight, Rest(r), todo' = <<x>> \o r, HeadOK',
         x.do \in {"lot", "buy", "debit"} => Quiets(r),
         \A a \in DOMAIN ToExit(r) :
            /\ Viewed(ToExit(r)[a].id)'
            /\ x.do \in {"close", "sell", "credit"} => ToExit(r)[a].id # x.id
  PROVE  StackOK'
<1> PICK s : s = todo' OBVIOUS
<1>1. s = <<x>> \o r OBVIOUS
<1>2. s # <<>> /\ Head(s) = x /\ Proper(s) /\ Loose(s) = r BY <1>1, TightPush
<1>3. LoopOK'
  <2>1. ToExit(Loose(todo')) = ToExit(r) BY <1>2
  <2> QED BY <1>2, <2>1 DEF LoopOK, Doing
<1>4. FillOK' BY <1>2 DEF FillOK, Doing
<1> QED BY <1>2, <1>3, <1>4 DEF StackOK
-----------------------------------------------------------------------------
(* Marks: rows and views keep what the books are made of. *)

SameLot(row, old) ==
    /\ {"dep", "num", "entryPrice", "qty", "stop", "status", "pnl"} \subseteq DOMAIN row
    /\ row.dep = old.dep /\ row.num = old.num /\ row.entryPrice = old.entryPrice
    /\ row.qty = old.qty /\ row.stop = old.stop /\ row.status = old.status /\ row.pnl = old.pnl

SameRows ==
    /\ Proper(lots') /\ DOMAIN lots' = DOMAIN lots
    /\ \A i \in DOMAIN lots : SameLot(lots'[i], lots[i])

SameViews ==
    /\ Proper(openLots') /\ DOMAIN openLots' = DOMAIN openLots
    /\ \A i \in DOMAIN openLots :
          openLots'[i].id = openLots[i].id /\ openLots'[i].target \in Int /\ openLots'[i].last \in Int

\* The running frame has written one side of the books only.
Between(stack) == stack # <<>> /\ Head(stack).do \in {"debit", "sell", "credit"}

\* A step that leaves the rows alone keeps what the books need of them.
LEMMA RowsUnchanged == ASSUME RowsOK, UNCHANGED lots PROVE SameRows
  BY DEF RowsOK, RowOK, SameRows, SameLot, Proper

\* A step that leaves the views alone keeps what the books need of them.
LEMMA ViewsUnchanged == ASSUME ViewsOK, UNCHANGED openLots PROVE SameViews
  BY DEF ViewsOK, SameViews, Proper

\* Writing a row, a new one or one of the same lot, keeps the rows well formed.
LEMMA RowWritten == ASSUME RowsOK, NEW n, NEW row, n \in DOMAIN lots => SameLot(row, lots[n]),
                           lots' = [lots EXCEPT ![n] = row]
                    PROVE SameRows
<1>1. Proper(lots') BY ProperUpdate DEF RowsOK
<1>2. DOMAIN lots' = DOMAIN lots OBVIOUS
<1>3. \A i \in DOMAIN lots : lots'[i] = IF i = n THEN row ELSE lots[i] OBVIOUS
<1>4. \A i \in DOMAIN lots : SameLot(lots[i], lots[i]) BY DEF RowsOK, RowOK, SameLot
<1> QED BY <1>1, <1>2, <1>3, <1>4 DEF SameRows

\* lots.mark()
LEMMA MarkKeepsRows ==
  ASSUME RowsOK, NEW id, NEW cost, NEW target, NEW unreal, NEW last,
         MarkRow(id, cost, target, unreal, last)
  PROVE  SameRows
<1>1. CASE lots[id].status # "OPEN" BY <1>1, RowsUnchanged DEF MarkRow
<1>2. CASE lots[id].status = "OPEN"
  <2> DEFINE row == [lots[id] EXCEPT !.cost = cost, !.target = target,
                                     !.unreal = unreal, !.last = last]
  <2>1. lots' = [lots EXCEPT ![id] = row] BY <1>2 DEF MarkRow
  <2>2. id \in DOMAIN lots => SameLot(row, lots[id])
    <3> SUFFICES ASSUME id \in DOMAIN lots PROVE SameLot(row, lots[id]) OBVIOUS
    <3>1. {"dep", "num", "entryPrice", "qty", "stop", "status", "pnl"} \subseteq DOMAIN lots[id]
      BY DEF RowsOK, RowOK
    <3> PICK old : old = lots[id] OBVIOUS
    <3>2. row = [old EXCEPT !.cost = cost, !.target = target, !.unreal = unreal, !.last = last] OBVIOUS
    <3>3. SameLot([old EXCEPT !.cost = cost, !.target = target, !.unreal = unreal, !.last = last], old)
      BY <3>1 DEF SameLot
    <3> QED BY <3>2, <3>3
  <2> HIDE DEF row
  <2> QED BY <2>1, <2>2, RowWritten
<1> QED BY <1>1, <1>2

\* The sums stay.
LEMMA SumsKept ==
  ASSUME RowsOK, ViewsOK, SameRows, SameViews, UNCHANGED <<fifo, trades>>
  PROVE  /\ Flows' = Flows /\ Booked' = Booked /\ Units' = Units /\ InventoryCost' = InventoryCost
         /\ \A id \in DOMAIN lots : /\ AcquisitionCost(id)' = AcquisitionCost(id)
                                    /\ InStock(id)' = InStock(id)
         /\ \A id : Viewed(id)' <=> Viewed(id)
<1>0. /\ DOMAIN lots' = DOMAIN lots
      /\ \A i \in DOMAIN lots : /\ lots'[i].qty = lots[i].qty /\ lots'[i].pnl = lots[i].pnl
                                /\ lots'[i].entryPrice = lots[i].entryPrice
  BY DEF SameRows, SameLot
<1>1. /\ DOMAIN openLots' = DOMAIN openLots
      /\ \A i \in DOMAIN openLots : openLots'[i].id = openLots[i].id /\ openLots[i].id \in DOMAIN lots
  BY DEF SameViews, ViewsOK
<1>2. Flows' = Flows BY DEF Flows, TradeFlow, EntryCost, ExitProceeds
<1>3. Booked' = Booked
  <2>1. [i \in DOMAIN lots' |-> lots'[i].pnl] = [i \in DOMAIN lots |-> lots[i].pnl] BY <1>0
  <2> QED BY <2>1 DEF Booked
<1>4. Units' = Units
  <2>1. [i \in DOMAIN openLots' |-> lots'[openLots'[i].id].qty] = [i \in DOMAIN openLots |-> lots[openLots[i].id].qty]
    BY <1>0, <1>1
  <2> QED BY <2>1 DEF Units
<1>5. InventoryCost' = InventoryCost
  <2>1. [i \in DOMAIN openLots' |-> EntryCost(lots'[openLots'[i].id].entryPrice, lots'[openLots'[i].id].qty)]
        = [i \in DOMAIN openLots |-> EntryCost(lots[openLots[i].id].entryPrice, lots[openLots[i].id].qty)]
    BY <1>0, <1>1
  <2> QED BY <2>1 DEF InventoryCost, SumViews
<1>6. \A id \in DOMAIN lots : AcquisitionCost(id)' = AcquisitionCost(id) /\ InStock(id)' = InStock(id)
  BY <1>0 DEF AcquisitionCost, AcquisitionCostOfLot, InStock
<1>7. \A id : Viewed(id)' <=> Viewed(id) BY <1>1 DEF Viewed
<1> QED BY <1>2, <1>3, <1>4, <1>5, <1>6, <1>7

\* Rows, views and books after a step that marks.
LEMMA LedgerKept ==
  ASSUME RowsOK, ViewsOK, BooksOK, SameRows, SameViews, UNCHANGED <<fifo, trades, cash>>,
         ~Between(todo), ~Between(todo')
  PROVE  RowsOK' /\ ViewsOK' /\ BooksOK'
<1>1. RowsOK'
  <2>1. \A i \in DOMAIN lots : RowOK(lots[i]) /\ SameLot(lots'[i], lots[i]) BY DEF RowsOK, SameRows
  <2>2. \A i \in DOMAIN lots : RowOK(lots'[i]) BY <2>1 DEF RowOK, SameLot
  <2> QED BY <2>2 DEF RowsOK, SameRows, Proper
<1>2. ViewsOK'
  <2>0. \A id : ~Left(id) BY DEF Left, Between, Doing
  <2>1. \A i \in DOMAIN openLots : openLots[i].id \in DOMAIN lots /\ lots[openLots[i].id].status = "OPEN"
    BY <2>0 DEF ViewsOK
  <2>2. \A i \in DOMAIN openLots : openLots[i].id \in DOMAIN lots' /\ lots'[openLots[i].id].status = "OPEN"
    BY <2>1 DEF SameRows, SameLot
  <2> QED BY <2>2 DEF ViewsOK, SameViews, Proper
<1>3. BooksOK'
  <2>1. Flows' = Flows /\ Booked' = Booked /\ Units' = Units /\ InventoryCost' = InventoryCost BY SumsKept
  <2>2. FlowGap = 0 /\ BookGap = 0 /\ UnitGap = 0 BY DEF Between, Doing, FlowGap, BookGap, UnitGap
  <2>3. FlowGap' = 0 /\ BookGap' = 0 /\ UnitGap' = 0 BY DEF Between, Doing, FlowGap, BookGap, UnitGap
  <2> QED BY <2>1, <2>2, <2>3 DEF BooksOK, Proper
<1> QED BY <1>1, <1>2, <1>3

-----------------------------------------------------------------------------
(* A lot joins the open ones, and one leaves them. *)

\* What the open lots are worth, when w says what each row is worth.
Worth(w, views) == Total([i \in DOMAIN views |-> w[views[i].id]])

\* A lot that joins adds its worth.
LEMMA WorthOfAppended ==
  ASSUME NEW w, NEW views, NEW v, Proper(views)
  PROVE  Worth(w, Append(views, v)) = Worth(w, views) + w[v.id]
<1> DEFINE more == Append(views, v)
           n == Len(views)
           s == [i \in DOMAIN views |-> w[views[i].id]]
           t == [i \in DOMAIN more |-> w[more[i].id]]
<1>1. n \in Nat /\ DOMAIN views = 1..n BY ProperDomain
<1>2. DOMAIN more = 1..(n + 1) /\ (\A i \in 1..n : more[i] = views[i]) /\ more[n + 1] = v
  BY <1>1, ProperAppend
<1> HIDE DEF more, n
<1>3. DOMAIN s = 1..n /\ DOMAIN t = 1..(n + 1) BY <1>1, <1>2
<1>4. Len(s) = n /\ Len(t) = n + 1 BY <1>1, <1>3
<1>5. \A i \in 1..n : t[i] = s[i]
  <2> TAKE i \in 1..n
  <2>1. i \in 1..(n + 1) BY <1>1
  <2> QED BY <1>1, <1>2, <2>1
<1>6. t[n + 1] = w[v.id]
  <2>1. n + 1 \in 1..(n + 1) BY <1>1
  <2> QED BY <1>2, <2>1
<1> HIDE DEF s, t
<1>7. Total(t) = Total(s) + t[n + 1] BY <1>1, <1>4, <1>5, TotalOfLonger
<1> QED BY <1>6, <1>7 DEF s, t, more, Worth

\* What the open lots are worth is a number.
LEMMA WorthIsInt ==
  ASSUME NEW w, NEW views, Proper(views), \A i \in DOMAIN views : w[views[i].id] \in Int
  PROVE  Worth(w, views) \in Int
<1> DEFINE n == Len(views)
           s == [i \in DOMAIN views |-> w[views[i].id]]
<1>1. n \in Nat /\ DOMAIN views = 1..n BY ProperDomain
<1> HIDE DEF n
<1>2. DOMAIN s = 1..n /\ \A i \in 1..n : s[i] \in Int BY <1>1
<1>3. Len(s) = n BY <1>1, <1>2
<1> HIDE DEF s
<1>4. SumTo(s, n) \in Int BY <1>1, <1>2, SumIsInt
<1> QED BY <1>3, <1>4 DEF s, Worth, Total

\* The views but those of a lot.
Without(views, id) == Only(views, {i \in DOMAIN views : views[i].id # id})

\* They are views of other lots, all of them, in their order.
LEMMA WithoutIs ==
  ASSUME NEW views, Proper(views), NEW w, NEW id, \A i \in DOMAIN views : w[views[i].id] \in Int
  PROVE  \E f : IsOnly(f, Without(views, id), views, {i \in DOMAIN views : views[i].id # id},
                       [i \in DOMAIN views |-> w[views[i].id]], Len(views))
<1>1. Len(views) \in Nat /\ DOMAIN views = 1..Len(views) BY ProperDomain
<1> DEFINE places == {i \in DOMAIN views : views[i].id # id}
           v == [i \in DOMAIN views |-> w[views[i].id]]
<1>2. \A i \in 1..Len(views) : v[i] \in Int BY <1>1
<1>3. Without(views, id) = Only(views, places) BY DEF Without
<1> HIDE DEF places, v
<1>4. \E f : IsOnly(f, Only(views, places), views, places, v, Len(views)) BY <1>1, <1>2, OnlyEnumerates
<1> QED BY <1>3, <1>4 DEF places, v

\* The views that are kept come from the list, in its order.
LEMMA OnlyKeeps ==
  ASSUME NEW views, Proper(views), NEW places
  PROVE  LET rest == Only(views, places)
         IN  /\ Proper(rest)
             /\ \A a \in DOMAIN rest : \E i \in DOMAIN views : rest[a] = views[i] /\ i \in places
             /\ \A i \in DOMAIN views : i \in places => \E a \in DOMAIN rest : rest[a] = views[i]
             /\ (\A i, j \in DOMAIN views : views[i].id = views[j].id => i = j)
                   => \A a, b \in DOMAIN rest : rest[a].id = rest[b].id => a = b
<1> DEFINE rest == Only(views, places)
           n == Len(views)
           zeros == [i \in DOMAIN views |-> 0]
<1>1. n \in Nat /\ DOMAIN views = 1..n BY ProperDomain
<1>2. PICK f : IsOnly(f, rest, views, places, zeros, n)
  <2>1. \A i \in 1..n : zeros[i] \in Int BY <1>1
  <2> HIDE DEF zeros
  <2> QED BY <1>1, <2>1, OnlyEnumerates
<1>3. Enumerates(f, places, n) /\ rest = Chosen(views, f) BY <1>2 DEF IsOnly
<1> DEFINE m == Len(f)
<1>4. m \in Nat /\ \A a \in 1..m : f[a] \in 1..n
  <2> DEFINE T == 1..n
  <2>1. f \in Seq(T) BY <1>3 DEF Enumerates
  <2> HIDE DEF T
  <2>2. m \in Nat /\ \A a \in 1..m : f[a] \in T BY <2>1
  <2> QED BY <2>2 DEF T
<1>5. /\ \A a, b \in 1..m : a < b => f[a] < f[b]
      /\ \A a \in 1..m : f[a] \in places
      /\ \A i \in 1..n : i \in places => \E a \in 1..m : f[a] = i
  BY <1>3 DEF Enumerates
<1>6. rest = [a \in 1..m |-> views[f[a]]] BY <1>3 DEF Chosen
<1> HIDE DEF rest, m, n, zeros
<1>7. rest \in [1..m -> ToSet(views)] BY <1>1, <1>4, <1>6 DEF ToSet
<1>8. rest \in Seq(ToSet(views)) /\ DOMAIN rest = 1..m BY <1>4, <1>7, SeqOfFunction
<1>9. Proper(rest) BY <1>8, ProperSeq
<1>10. \A a \in 1..m : rest[a] = views[f[a]] /\ f[a] \in DOMAIN views /\ f[a] \in places
  BY <1>1, <1>4, <1>5, <1>6
<1>11. \A i \in DOMAIN views : i \in places => \E a \in 1..m : rest[a] = views[i]
  <2> TAKE i \in DOMAIN views
  <2> HAVE i \in places
  <2>1. i \in 1..n BY <1>1
  <2>2. PICK a \in 1..m : f[a] = i BY <1>5, <2>1
  <2> QED BY <1>10, <2>2
<1>12. ASSUME \A i, j \in DOMAIN views : views[i].id = views[j].id => i = j,
              NEW a \in 1..m, NEW b \in 1..m, rest[a].id = rest[b].id
       PROVE  a = b
  <2>1. f[a] = f[b] BY <1>10, <1>12
  <2>2. ~ (a < b) /\ ~ (b < a)
    <3>1. f[a] \in Int /\ f[b] \in Int BY <1>1, <1>4
    <3>2. ~ (f[a] < f[b]) /\ ~ (f[b] < f[a]) BY <2>1, <3>1
    <3> QED BY <1>5, <3>2
  <2> QED BY <1>4, <2>2
<1> QED BY <1>8, <1>9, <1>10, <1>11, <1>12 DEF rest

\* The lots that stay when one leaves are viewed once, and each of them was.
LEMMA OthersStay ==
  ASSUME NEW views, Proper(views), NEW id
  PROVE  LET rest == Without(views, id)
         IN  /\ Proper(rest)
             /\ \A a \in DOMAIN rest : \E i \in DOMAIN views : rest[a] = views[i] /\ views[i].id # id
             /\ \A i \in DOMAIN views : views[i].id # id => \E a \in DOMAIN rest : rest[a] = views[i]
             /\ (\A i, j \in DOMAIN views : views[i].id = views[j].id => i = j)
                   => \A a, b \in DOMAIN rest : rest[a].id = rest[b].id => a = b
<1> DEFINE places == {i \in DOMAIN views : views[i].id # id}
           rest == Only(views, places)
<1>1. rest = Without(views, id) BY DEF Without
<1>2. \A i \in DOMAIN views : i \in places <=> views[i].id # id OBVIOUS
<1> HIDE DEF places
<1>3. /\ Proper(rest)
      /\ \A a \in DOMAIN rest : \E i \in DOMAIN views : rest[a] = views[i] /\ i \in places
      /\ \A i \in DOMAIN views : i \in places => \E a \in DOMAIN rest : rest[a] = views[i]
      /\ (\A i, j \in DOMAIN views : views[i].id = views[j].id => i = j)
            => \A a, b \in DOMAIN rest : rest[a].id = rest[b].id => a = b
  BY OnlyKeeps
<1> HIDE DEF rest
<1> QED BY <1>1, <1>2, <1>3

\* A lot that leaves takes its worth along.
LEMMA WorthOfOthers ==
  ASSUME NEW views, Proper(views), NEW w, \A i \in DOMAIN views : w[views[i].id] \in Int,
         \A i, j \in DOMAIN views : views[i].id = views[j].id => i = j,
         NEW k \in DOMAIN views
  PROVE  Worth(w, Without(views, views[k].id)) = Worth(w, views) - w[views[k].id]
<1> DEFINE id == views[k].id
           rest == Without(views, id)
           n == Len(views)
           places == {i \in DOMAIN views : views[i].id # id}
           v == [i \in DOMAIN views |-> w[views[i].id]]
           t == Masked(v, places, n)
<1>1. n \in Nat /\ DOMAIN views = 1..n BY ProperDomain
<1>2. PICK f : IsOnly(f, rest, views, places, v, n) BY WithoutIs
<1>3. rest = Chosen(views, f) /\ Enumerates(f, places, n) /\ SumTo(Chosen(v, f), Len(f)) = SumTo(t, n)
  BY <1>2 DEF IsOnly
<1> DEFINE m == Len(f)
<1>4. m \in Nat /\ \A a \in 1..m : f[a] \in 1..n
  <2> DEFINE T == 1..n
  <2>1. f \in Seq(T) BY <1>3 DEF Enumerates
  <2> HIDE DEF T
  <2>2. m \in Nat /\ \A a \in 1..m : f[a] \in T BY <2>1
  <2> QED BY <2>2 DEF T
<1>5. SumTo(t, n) = SumTo(v, n) + t[k] - v[k]
  <2>1. k \in 1..n BY <1>1
  <2>2. \A i \in 1..n : v[i] \in Int /\ t[i] = IF i \in places THEN v[i] ELSE 0 BY <1>1 DEF Masked
  <2>3. \A i \in 1..n : v[i] \in Int /\ t[i] \in Int /\ (i # k => t[i] = v[i])
    <3> TAKE i \in 1..n
    <3>1. i # k => i \in places BY <1>1
    <3> HIDE DEF v, t, places
    <3> QED BY <2>2, <3>1
  <2> HIDE DEF v, t, places, n
  <2> QED BY <1>1, <2>1, <2>3, SumOfUpdate
<1>6. t[k] = 0 /\ v[k] = w[id] BY <1>1 DEF Masked
<1>7. Worth(w, views) = SumTo(v, n)
  <2>1. Len(v) = n BY <1>1
  <2> QED BY <2>1 DEF Worth, Total
<1>8. Worth(w, rest) = SumTo(Chosen(v, f), m)
  <2>1. rest = [a \in 1..m |-> views[f[a]]] BY <1>3 DEF Chosen
  <2>2. DOMAIN rest = 1..m BY <2>1
  <2>3. [a \in DOMAIN rest |-> w[rest[a].id]] = Chosen(v, f)
    <3>1. \A a \in 1..m : w[rest[a].id] = v[f[a]] BY <1>1, <1>4, <2>1
    <3> HIDE DEF rest, v, m
    <3> QED BY <2>2, <3>1 DEF Chosen, m
  <2>4. Len(Chosen(v, f)) = m BY <1>4 DEF Chosen
  <2> HIDE DEF rest, v
  <2> QED BY <2>3, <2>4 DEF Worth, Total
<1>9. SumTo(v, n) \in Int /\ w[id] \in Int
  <2>1. \A i \in 1..n : v[i] \in Int BY <1>1
  <2> HIDE DEF v, n
  <2>2. SumTo(v, n) \in Int BY <1>1, <2>1, SumIsInt
  <2> QED BY <2>2
<1> HIDE DEF rest, v, t, m, n
<1> QED BY <1>3, <1>5, <1>6, <1>7, <1>8, <1>9 DEF rest, m, n

-----------------------------------------------------------------------------
(* The transactions of a fill. *)

\* The units and the cost of the open lots, from the rows.
LEMMA WorthsAre ==
  ASSUME ViewsOK
  PROVE  /\ Units = Worth([i \in DOMAIN lots |-> lots[i].qty], openLots)
         /\ ~NSE => InventoryCost = Worth([i \in DOMAIN lots |-> EntryCost(lots[i].entryPrice, lots[i].qty)], openLots)
<1> DEFINE q == [i \in DOMAIN lots |-> lots[i].qty]
           c == [i \in DOMAIN lots |-> EntryCost(lots[i].entryPrice, lots[i].qty)]
<1>1. \A i \in DOMAIN openLots : openLots[i].id \in DOMAIN lots BY DEF ViewsOK
<1>2. [i \in DOMAIN openLots |-> q[openLots[i].id]] = [i \in DOMAIN openLots |-> lots[openLots[i].id].qty] BY <1>1
<1>3. [i \in DOMAIN openLots |-> c[openLots[i].id]]
        = [i \in DOMAIN openLots |-> EntryCost(lots[openLots[i].id].entryPrice, lots[openLots[i].id].qty)]
  BY <1>1
<1>4. Worth(q, openLots) = Units BY <1>2 DEF Worth, Units
<1>5. ~NSE => Worth(c, openLots) = InventoryCost BY <1>3 DEF Worth, InventoryCost, SumViews
<1> QED BY <1>4, <1>5

\* What the rows are worth are numbers.
LEMMA RowNumbers ==
  ASSUME RowsOK, NEW i \in DOMAIN lots
  PROVE  /\ lots[i].qty \in Nat \ {0} /\ lots[i].entryPrice \in Nat \ {0} /\ lots[i].pnl \in Int /\ i \in Nat \ {0}
         /\ EntryCost(lots[i].entryPrice, lots[i].qty) \in Int
         /\ EntryCost(lots[i].entryPrice, lots[i].qty) = lots[i].entryPrice * lots[i].qty + UnitFee * lots[i].qty
<1>1. lots[i].qty \in Nat \ {0} /\ lots[i].entryPrice \in Nat \ {0} /\ lots[i].pnl \in Int BY DEF RowsOK, RowOK
<1>2. i \in Nat \ {0} BY ProperDomain DEF RowsOK
<1>3. UnitFee \in Int BY CostsAreNatural
<1>4. EntryCost(lots[i].entryPrice, lots[i].qty) = (lots[i].entryPrice + UnitFee) * lots[i].qty BY DEF EntryCost
<1>5. \A a, b, c \in Int : (a + b) * c = a * c + b * c /\ (a + b) * c \in Int OBVIOUS
<1> QED BY <1>1, <1>2, <1>3, <1>4, <1>5

\* The sums of the books are numbers.
LEMMA LedgerNumbers ==
  ASSUME RowsOK, ViewsOK, BooksOK
  PROVE  /\ Booked \in Int /\ Units \in Int /\ InventoryCost \in Int /\ Flows \in Int /\ cash \in Int
         /\ Cost(fifo) \in Int /\ Quantity(fifo) \in Nat
         /\ {StartingBalance, Slippage, UnitFee} \subseteq Nat
<1>1. Booked \in Int
  <2> DEFINE n == Len(lots)
             s == [i \in DOMAIN lots |-> lots[i].pnl]
  <2>1. n \in Nat /\ DOMAIN lots = 1..n BY ProperDomain DEF RowsOK
  <2>2. DOMAIN s = 1..n /\ \A i \in 1..n : s[i] \in Int BY <2>1, RowNumbers
  <2>3. Len(s) = n BY <2>1, <2>2
  <2>4. Booked = SumTo(s, n) BY <2>3 DEF Booked, Total
  <2> HIDE DEF s, n
  <2> QED BY <2>1, <2>2, <2>4, SumIsInt
<1>2. Proper(openLots) /\ \A i \in DOMAIN openLots : openLots[i].id \in DOMAIN lots BY DEF ViewsOK
<1>3. Units \in Int
  <2> DEFINE w == [i \in DOMAIN lots |-> lots[i].qty]
  <2>1. \A i \in DOMAIN openLots : w[openLots[i].id] \in Int BY <1>2, RowNumbers
  <2>2. Units = Worth(w, openLots) BY WorthsAre
  <2> HIDE DEF w
  <2> QED BY <1>2, <2>1, <2>2, WorthIsInt
<1>4. Cost(fifo) \in Int /\ Quantity(fifo) \in Nat
  <2>1. fifo \in Seq(Slices) /\ 0 \in Nat BY DEF BooksOK
  <2> QED BY <2>1, CostsAreNumbers
<1>5. {StartingBalance, Slippage, UnitFee} \subseteq Nat BY CostsAreNatural
<1>6. InventoryCost \in Int
  <2>1. CASE NSE BY <1>4, <1>5, <2>1 DEF InventoryCost
  <2>2. CASE ~NSE
    <3> DEFINE w == [i \in DOMAIN lots |-> EntryCost(lots[i].entryPrice, lots[i].qty)]
    <3>1. \A i \in DOMAIN openLots : w[openLots[i].id] \in Int BY <1>2, RowNumbers
    <3>2. InventoryCost = Worth(w, openLots) BY <2>2, WorthsAre
    <3> HIDE DEF w
    <3> QED BY <1>2, <3>1, <3>2, WorthIsInt
  <2> QED BY <2>1, <2>2
<1> QED BY <1>1, <1>3, <1>4, <1>5, <1>6 DEF BooksOK

\* The lots of the exit loop below the running frame.
LEMMA ExitsViewed ==
  ASSUME StackOK
  PROVE  \A a \in DOMAIN ToExit(Loose(todo)) :
            /\ Viewed(ToExit(Loose(todo))[a].id)
            /\ Doing("close") \/ Doing("sell") \/ Doing("credit") => ToExit(Loose(todo))[a].id # Head(todo).id
  BY DEF StackOK, LoopOK

\* lots.insert()
LEMMA LotInserted == ASSUME Ledger, InsertLot PROVE Ledger'
<1> PICK lot : lot = Head(todo).lot OBVIOUS
<1> PICK id : id = Len(lots) + 1 OBVIOUS
<1> PICK x : x = Step("buy", id) OBVIOUS
<1> PICK r : r = Tail(todo) OBVIOUS
<1>0. /\ lots' = Append(lots, lot) /\ todo' = <<x>> \o r /\ todo # <<>> /\ Doing("lot")
      /\ UNCHANGED <<trades, cash, openLots, fifo>>
  BY DEF InsertLot, Doing, Then, memory
<1>1. Head(todo).do = "lot" /\ Fresh(lot) BY <1>0 DEF Doing, Ledger, StackOK, HeadOK
<1>2. Loose(todo) = r /\ Rest(r) /\ Quiets(r) BY <1>0, <1>1, HeadFrame DEF Ledger, Tight, StackOK, FillOK
<1>3. /\ Proper(lots') /\ DOMAIN lots' = 1..id /\ lots'[id] = lot /\ id \in Nat
      /\ \A i \in DOMAIN lots : i \in DOMAIN lots' /\ lots'[i] = lots[i]
      /\ \A i \in DOMAIN lots' : i \in DOMAIN lots \/ i = id
      /\ DOMAIN lots = 1..(id - 1)
  BY <1>0, ProperAppend, ProperDomain DEF Ledger, RowsOK
<1>4. x.do = "buy" /\ x.id = id BY DEF Step
<1>5. RowsOK'
  <2>1. \A i \in DOMAIN lots' : RowOK(lots'[i]) BY <1>1, <1>3 DEF Ledger, RowsOK, Fresh
  <2> QED BY <1>3, <2>1 DEF RowsOK, Proper
<1>6. todo' # <<>> /\ Head(todo') = x /\ Proper(todo') /\ Loose(todo') = r
  <2>1. x.do \in Tight BY <1>4 DEF Tight
  <2> PICK s : s = <<x>> \o r OBVIOUS
  <2>2. s # <<>> /\ Head(s) = x /\ Proper(s) /\ Loose(s) = r BY <1>2, <2>1, TightPush
  <2>3. todo' = s BY <1>0
  <2> QED BY <2>2, <2>3
<1>7. /\ Proper(openLots)
      /\ \A i \in DOMAIN openLots : /\ openLots[i].id \in DOMAIN lots
                                    /\ openLots[i].target \in Int /\ openLots[i].last \in Int
                                    /\ lots[openLots[i].id].status = "OPEN"
      /\ \A i, j \in DOMAIN openLots : openLots[i].id = openLots[j].id => i = j
  BY <1>1 DEF Ledger, ViewsOK, Left, Doing
<1>8. \A i \in DOMAIN openLots : lots'[openLots[i].id] = lots[openLots[i].id] /\ openLots[i].id \in DOMAIN lots'
  BY <1>3, <1>7
<1>9. ViewsOK' BY <1>0, <1>7, <1>8 DEF ViewsOK, Proper
<1>10. ~Viewed(id)
  <2>1. ~ (id \in DOMAIN lots) BY <1>3
  <2> QED BY <1>7, <2>1 DEF Viewed
<1>11. HeadOK'
  <2>1. id \in DOMAIN lots' BY <1>3
  <2>2. Fresh(lots'[id]) BY <1>1, <1>3
  <2>3. (~Viewed(id))' BY <1>0, <1>10 DEF Viewed
  <2>4. todo' # <<>> /\ Head(todo').do = "buy" /\ Head(todo').id = id BY <1>4, <1>6
  <2> QED BY <2>1, <2>2, <2>3, <2>4 DEF HeadOK, Doing, Viewed
<1>12. StackOK'
  <2>1. \A a \in DOMAIN ToExit(r) : Viewed(ToExit(r)[a].id)' BY <1>0, <1>2, ExitsViewed DEF Ledger, Viewed
  <2>2. x.do \in Tight /\ x.do \notin {"close", "sell", "credit"} BY <1>4 DEF Tight
  <2> QED BY <1>0, <1>2, <1>11, <2>1, <2>2, StackTight
<1>13. Booked' = Booked
  <2> DEFINE s == [i \in DOMAIN lots |-> lots[i].pnl]
             t == [i \in DOMAIN lots' |-> lots'[i].pnl]
             n == Len(lots)
  <2>1. n \in Nat /\ DOMAIN lots = 1..n /\ id = n + 1 BY ProperDomain DEF Ledger, RowsOK
  <2>2. DOMAIN s = 1..n /\ DOMAIN t = 1..(n + 1) /\ (\A i \in 1..n : t[i] = s[i]) /\ t[n + 1] = lot.pnl
    <3>1. \A i \in 1..n : i \in DOMAIN lots' /\ lots'[i] = lots[i] BY <1>3, <2>1
    <3>2. n + 1 \in DOMAIN lots' /\ lots'[n + 1] = lot BY <1>3, <2>1
    <3> QED BY <1>3, <2>1, <3>1, <3>2
  <2>3. Len(s) = n /\ Len(t) = n + 1 BY <2>1, <2>2
  <2>4. lot.pnl = 0 BY <1>1 DEF Fresh, RowOK
  <2>5. Total(s) = Booked /\ Total(t) = Booked' BY DEF Booked
  <2>6. Booked \in Int BY LedgerNumbers DEF Ledger
  <2> HIDE DEF s, t, n
  <2>7. Total(t) = Total(s) + t[n + 1] BY <2>1, <2>2, <2>3, TotalOfLonger
  <2> QED BY <2>2, <2>4, <2>5, <2>6, <2>7
<1>14. Flows' = Flows BY <1>0 DEF Flows, TradeFlow, EntryCost, ExitProceeds
<1>15. Units' = Units
  <2>1. [i \in DOMAIN openLots' |-> lots'[openLots'[i].id].qty] = [i \in DOMAIN openLots |-> lots[openLots[i].id].qty]
    BY <1>0, <1>8
  <2> QED BY <2>1 DEF Units
<1>16. InventoryCost' = InventoryCost
  <2>1. [i \in DOMAIN openLots' |-> EntryCost(lots'[openLots'[i].id].entryPrice, lots'[openLots'[i].id].qty)]
        = [i \in DOMAIN openLots |-> EntryCost(lots[openLots[i].id].entryPrice, lots[openLots[i].id].qty)]
    BY <1>0, <1>8
  <2> QED BY <1>0, <2>1 DEF InventoryCost, SumViews
<1>17. FlowGap = 0 /\ BookGap = 0 /\ UnitGap = 0 BY <1>1 DEF Doing, FlowGap, BookGap, UnitGap
<1>18. FlowGap' = 0 /\ BookGap' = 0 /\ UnitGap' = 0 BY <1>4, <1>6 DEF Doing, FlowGap, BookGap, UnitGap
<1>19. BooksOK' BY <1>0, <1>13, <1>14, <1>15, <1>16, <1>17, <1>18 DEF Ledger, BooksOK, Proper
<1> QED BY <1>5, <1>9, <1>12, <1>19 DEF Ledger

\* The next frame of the same fill or exit.
LEMMA HeadReplaced ==
  ASSUME StackOK, todo # <<>>, Head(todo).do \in Tight, NEW y, y.do \in Tight, Then(<<y>>)
  PROVE  /\ todo' = <<y>> \o Loose(todo) /\ Rest(Loose(todo))
         /\ todo' # <<>> /\ Head(todo') = y
<1>1. Loose(todo) = Tail(todo) /\ Rest(Tail(todo)) BY HeadFrame
<1>2. todo' = <<y>> \o Tail(todo) BY DEF Then
<1> PICK s : s = <<y>> \o Tail(todo) OBVIOUS
<1>3. s # <<>> /\ Head(s) = y BY <1>1, TightPush
<1> QED BY <1>1, <1>2, <1>3

\* trades.insert() of the BUY, and the slice it adds to the queue.
LEMMA LotBought == ASSUME Ledger, InsertBuy PROVE Ledger'
<1> PICK id : id = Head(todo).id OBVIOUS
<1> PICK y : y = Step("debit", id) OBVIOUS
<1> PICK r : r = Loose(todo) OBVIOUS
<1> PICK t : t = [lot |-> id, side |-> "BUY", qty |-> lots[id].qty,
                  price |-> lots[id].entryPrice, at |-> 2 * lots[id].entryTs] OBVIOUS
<1>0. /\ Then(<<y>>) /\ todo # <<>> /\ Head(todo).do = "buy" /\ trades' = Append(trades, t)
      /\ fifo' = (IF NSE THEN Add(fifo, id, lots[id].entryPrice, lots[id].qty) ELSE fifo)
      /\ UNCHANGED <<lots, cash, openLots>>
  BY DEF InsertBuy, Doing
<1>1. id \in DOMAIN lots /\ Fresh(lots[id]) /\ ~Viewed(id) BY <1>0 DEF Ledger, StackOK, HeadOK, Doing
<1>2. y.do = "debit" /\ y.id = id BY DEF Step
<1>3. todo' = <<y>> \o r /\ Rest(r) /\ todo' # <<>> /\ Head(todo') = y
  BY <1>0, <1>2, HeadReplaced DEF Ledger, Tight
<1>17. Quiets(r) BY <1>0 DEF Ledger, StackOK, FillOK, Doing
<1>4. RowsOK' BY <1>0 DEF Ledger, RowsOK, Proper
<1>5. ViewsOK' BY <1>0, <1>2, <1>3 DEF Ledger, ViewsOK, Proper, Left, Doing
<1>6. HeadOK' BY <1>0, <1>1, <1>2, <1>3 DEF HeadOK, Doing, Viewed
<1>7. StackOK'
  <2>1. \A a \in DOMAIN ToExit(r) : Viewed(ToExit(r)[a].id)' BY <1>0, ExitsViewed DEF Ledger, Viewed
  <2>2. y.do \in Tight /\ y.do \notin {"close", "sell", "credit"} BY <1>2 DEF Tight
  <2> QED BY <1>3, <1>6, <1>17, <2>1, <2>2, StackTight
<1> PICK cost : cost = EntryCost(lots[id].entryPrice, lots[id].qty) OBVIOUS
<1>8. /\ cost \in Int /\ cost = lots[id].entryPrice * lots[id].qty + UnitFee * lots[id].qty
      /\ lots[id].qty \in Nat \ {0} /\ lots[id].entryPrice \in Nat \ {0} /\ id \in Nat
  BY <1>1, RowNumbers DEF Ledger
<1>9. Proper(trades') /\ Flows' = Flows - cost
  <2> DEFINE n == Len(trades)
             f == [i \in DOMAIN trades |-> TradeFlow(trades[i])]
             g == [i \in DOMAIN trades' |-> TradeFlow(trades'[i])]
  <2>1. n \in Nat /\ DOMAIN trades = 1..n BY ProperDomain DEF Ledger, BooksOK
  <2>2. /\ Proper(trades') /\ DOMAIN trades' = 1..(n + 1) /\ trades'[n + 1] = t
        /\ \A i \in 1..n : trades'[i] = trades[i]
    BY <1>0, <2>1, ProperAppend DEF Ledger, BooksOK
  <2>3. DOMAIN f = 1..n /\ DOMAIN g = 1..(n + 1) BY <2>1, <2>2
  <2>4. Len(f) = n /\ Len(g) = n + 1 BY <2>1, <2>3
  <2>5. \A i \in 1..n : g[i] = f[i]
    <3> TAKE i \in 1..n
    <3>1. i \in 1..(n + 1) BY <2>1
    <3> QED BY <2>1, <2>2, <3>1
  <2>6. g[n + 1] = TradeFlow(t)
    <3>1. n + 1 \in 1..(n + 1) BY <2>1
    <3> QED BY <2>2, <3>1
  <2>7. TradeFlow(t) = - cost BY DEF TradeFlow
  <2>8. Flows = Total(f) /\ Flows' = Total(g) BY DEF Flows, TradeFlow, EntryCost, ExitProceeds
  <2> HIDE DEF f, g, n
  <2>9. Total(g) = Total(f) + g[n + 1] BY <2>1, <2>4, <2>5, TotalOfLonger
  <2>10. Total(g) = Total(f) + (- cost) BY <2>6, <2>7, <2>9
  <2>11. Flows \in Int BY DEF Ledger, BooksOK
  <2> QED BY <1>8, <2>2, <2>8, <2>10, <2>11
<1>10. fifo \in Seq(Slices) BY DEF Ledger, BooksOK
<1>11. NSE => /\ fifo' \in Seq(Slices) /\ Quantity(fifo') = Quantity(fifo) + lots[id].qty
              /\ Cost(fifo') = Cost(fifo) + lots[id].entryPrice * lots[id].qty
  <2> SUFFICES ASSUME NSE
               PROVE  /\ fifo' \in Seq(Slices) /\ Quantity(fifo') = Quantity(fifo) + lots[id].qty
                      /\ Cost(fifo') = Cost(fifo) + lots[id].entryPrice * lots[id].qty
    OBVIOUS
  <2>1. fifo' = Add(fifo, id, lots[id].entryPrice, lots[id].qty) BY <1>0
  <2> DEFINE p == lots[id].entryPrice
             q == lots[id].qty
  <2>2. id \in Nat /\ p \in Nat \ {0} /\ q \in Nat \ {0} BY <1>8
  <2> HIDE DEF p, q
  <2>3. Bought(fifo, id, p, q) BY <1>10, <2>2 DEF Bought
  <2>4. Added(Add(fifo, id, p, q), fifo, p, q) BY <2>3, PurchaseIsAdded
  <2> QED BY <2>1, <2>4 DEF p, q, Added
<1>12. Booked' = Booked /\ Units' = Units BY <1>0 DEF Booked, Units
<1>13. InventoryCost' = InventoryCost + (IF NSE THEN cost ELSE 0)
  <2>1. CASE NSE
    <3> DEFINE q == lots[id].qty
               c == lots[id].entryPrice * lots[id].qty
               fee == UnitFee
    <3>1. /\ Cost(fifo) \in Int /\ Quantity(fifo) \in Int /\ fee \in Int /\ q \in Int /\ c \in Int
      BY <1>8, LedgerNumbers DEF Ledger
    <3>2. InventoryCost = Cost(fifo) + fee * Quantity(fifo) /\ InventoryCost' = Cost(fifo') + fee * Quantity(fifo')
      BY <2>1 DEF InventoryCost
    <3>3. cost = c + fee * q BY <1>8
    <3>4. Quantity(fifo') = Quantity(fifo) + q /\ Cost(fifo') = Cost(fifo) + c BY <1>11, <2>1
    <3> HIDE DEF q, c, fee
    <3>5. fee * (Quantity(fifo) + q) = fee * Quantity(fifo) + fee * q BY <3>1
    <3>6. fee * Quantity(fifo) \in Int /\ fee * q \in Int BY <3>1
    <3> QED BY <2>1, <3>1, <3>2, <3>3, <3>4, <3>5, <3>6
  <2>2. CASE ~NSE
    <3>1. InventoryCost' = InventoryCost BY <1>0, <2>2 DEF InventoryCost, SumViews
    <3>2. InventoryCost \in Int BY LedgerNumbers DEF Ledger
    <3> QED BY <2>2, <3>1, <3>2
  <2> QED BY <2>1, <2>2
<1>14. FlowGap = 0 /\ BookGap = 0 /\ UnitGap = 0 BY <1>0 DEF Doing, FlowGap, BookGap, UnitGap
<1>15. FlowGap' = cost /\ BookGap' = (IF NSE THEN cost ELSE 0) /\ UnitGap' = lots[id].qty
  BY <1>0, <1>2, <1>3 DEF Doing, FlowGap, BookGap, UnitGap, EntryCost
<1>16. BooksOK'
  <2>1. /\ cash' = cash /\ cash \in Int /\ Flows \in Int /\ StartingBalance \in Int /\ InventoryCost \in Int
        /\ Booked \in Int /\ Units \in Int /\ Quantity(fifo) \in Int
    BY <1>0, LedgerNumbers DEF Ledger
  <2>2. /\ cash = StartingBalance + Flows + FlowGap /\ cash + InventoryCost = StartingBalance + Booked + BookGap
        /\ NSE => Quantity(fifo) = Units + UnitGap
    BY DEF Ledger, BooksOK
  <2>7. cost \in Int BY <1>8
  <2>3. Flows' \in Int /\ cash' = StartingBalance + Flows' + FlowGap' BY <1>9, <1>14, <1>15, <2>1, <2>2, <2>7
  <2>4. cash' + InventoryCost' = StartingBalance + Booked' + BookGap'
    BY <1>12, <1>13, <1>14, <1>15, <2>1, <2>2, <2>7
  <2>5. NSE => Quantity(fifo') = Units' + UnitGap' BY <1>8, <1>11, <1>12, <1>14, <1>15, <2>1, <2>2
  <2>6. fifo' \in Seq(Slices) BY <1>0, <1>10, <1>11
  <2> QED BY <1>9, <2>1, <2>3, <2>4, <2>5, <2>6 DEF BooksOK, Proper
<1> QED BY <1>4, <1>5, <1>7, <1>16 DEF Ledger

\* accounts.debit(): the lot joins the open ones.
LEMMA LotDebited == ASSUME Ledger, Debit PROVE Ledger'
<1> PICK id : id = Head(todo).id OBVIOUS
<1> PICK v : v = View(id, lots[id]) OBVIOUS
<1> PICK cost : cost = EntryCost(lots[id].entryPrice, lots[id].qty) OBVIOUS
<1> PICK y : y = [do |-> "remark", close |-> lots[id].entryPrice] OBVIOUS
<1>0. /\ Then(<<y>>) /\ todo # <<>> /\ Head(todo).do = "debit"
      /\ cash' = cash - cost /\ openLots' = Append(openLots, v)
      /\ UNCHANGED <<lots, trades, fifo>>
  BY DEF Debit, Doing
<1>1. id \in DOMAIN lots /\ Fresh(lots[id]) /\ ~Viewed(id) BY <1>0 DEF Ledger, StackOK, HeadOK, Doing
<1>2. /\ cost \in Int /\ lots[id].qty \in Nat \ {0} /\ lots[id].entryPrice \in Nat \ {0}
  BY <1>1, RowNumbers DEF Ledger
<1>3. v.id = id /\ v.target \in Int /\ v.last \in Int BY <1>1 DEF View, Fresh
<1>4. Loose(todo) = Tail(todo) /\ Quiets(Tail(todo)) BY <1>0, HeadFrame DEF Ledger, Tight, StackOK, FillOK, Doing
<1>5. todo' = <<y>> \o Tail(todo) BY <1>0 DEF Then
<1>6. y.do = "remark" /\ Quiet(y)
  <2>1. lots[id].entryPrice \in Int BY <1>2
  <2> QED BY <2>1 DEF Quiet, Tight
<1>7. Quiets(todo')
  <2>1. Quiets(<<y>> \o Tail(todo)) BY <1>4, <1>6, QuietsOne, QuietsConcat
  <2> QED BY <1>5, <2>1
<1>8. StackOK' /\ (todo' # <<>> => Quiet(Head(todo'))) BY <1>7, StackQuiet
<1>9. RowsOK' BY <1>0 DEF Ledger, RowsOK, Proper
<1>10. /\ Proper(openLots)
       /\ \A i \in DOMAIN openLots : /\ openLots[i].id \in DOMAIN lots
                                     /\ openLots[i].target \in Int /\ openLots[i].last \in Int
                                     /\ lots[openLots[i].id].status = "OPEN"
                                     /\ openLots[i].id # id
       /\ \A i, j \in DOMAIN openLots : openLots[i].id = openLots[j].id => i = j
  BY <1>0, <1>1 DEF Ledger, ViewsOK, Left, Doing, Viewed
<1>11. /\ Proper(openLots') /\ \A i \in DOMAIN openLots : openLots'[i] = openLots[i]
       /\ \A i \in DOMAIN openLots' : \/ i \in DOMAIN openLots
                                      \/ i = Len(openLots) + 1 /\ openLots'[i] = v
  BY <1>0, <1>10, ProperAppend
<1>19. UNCHANGED <<lots, trades, fifo>> BY <1>0
<1>20. \A i \in DOMAIN openLots' : /\ openLots'[i].id \in DOMAIN lots
                                   /\ openLots'[i].target \in Int /\ openLots'[i].last \in Int
                                   /\ lots[openLots'[i].id].status = "OPEN"
  BY <1>1, <1>3, <1>10, <1>11 DEF Fresh
<1>12. ViewsOK'
  <2>2. \A i, j \in DOMAIN openLots' : openLots'[i].id = openLots'[j].id => i = j
    <3> TAKE i, j \in DOMAIN openLots'
    <3> HAVE openLots'[i].id = openLots'[j].id
    <3>1. CASE i \in DOMAIN openLots /\ j \in DOMAIN openLots BY <3>1, <1>10, <1>11
    <3>2. CASE i \in DOMAIN openLots /\ openLots'[j] = v BY <3>2, <1>3, <1>10, <1>11
    <3>3. CASE j \in DOMAIN openLots /\ openLots'[i] = v BY <3>3, <1>3, <1>10, <1>11
    <3>4. CASE i = Len(openLots) + 1 /\ j = Len(openLots) + 1 BY <3>4
    <3> QED BY <1>11, <3>1, <3>2, <3>3, <3>4
  <2> QED BY <1>11, <1>19, <1>20, <2>2 DEF ViewsOK, Proper
<1>13. Units' = Units + lots[id].qty
  <2> DEFINE w == [i \in DOMAIN lots |-> lots[i].qty]
  <2>1. Units = Worth(w, openLots) /\ Units' = Worth(w, openLots')
    <3>1. Units = Worth(w, openLots) BY WorthsAre DEF Ledger
    <3>2. [i \in DOMAIN openLots' |-> lots'[openLots'[i].id].qty] = [i \in DOMAIN openLots' |-> w[openLots'[i].id]]
      BY <1>19, <1>20
    <3> QED BY <3>1, <3>2 DEF Units, Worth
  <2>2. Worth(w, Append(openLots, v)) = Worth(w, openLots) + w[v.id] BY <1>10, WorthOfAppended
  <2>3. w[v.id] = lots[id].qty BY <1>1, <1>3
  <2> HIDE DEF w
  <2> QED BY <1>0, <2>1, <2>2, <2>3
<1>14. InventoryCost' = InventoryCost + (IF NSE THEN 0 ELSE cost)
  <2>1. CASE NSE
    <3>1. InventoryCost' = InventoryCost BY <1>0, <2>1 DEF InventoryCost
    <3>2. InventoryCost \in Int BY LedgerNumbers DEF Ledger
    <3> QED BY <2>1, <3>1, <3>2
  <2>2. CASE ~NSE
    <3> DEFINE w == [i \in DOMAIN lots |-> EntryCost(lots[i].entryPrice, lots[i].qty)]
    <3>1. InventoryCost = Worth(w, openLots) BY <2>2, WorthsAre DEF Ledger
    <3>2. [i \in DOMAIN openLots' |-> EntryCost(lots'[openLots'[i].id].entryPrice, lots'[openLots'[i].id].qty)]
            = [i \in DOMAIN openLots' |-> w[openLots'[i].id]]
      BY <1>19, <1>20
    <3>3. InventoryCost' = Worth(w, openLots') BY <2>2, <3>2 DEF InventoryCost, SumViews, Worth
    <3>4. Worth(w, Append(openLots, v)) = Worth(w, openLots) + w[v.id] BY <1>10, WorthOfAppended
    <3>5. w[v.id] = cost BY <1>1, <1>3
    <3> HIDE DEF w
    <3> QED BY <1>0, <2>2, <3>1, <3>3, <3>4, <3>5
  <2> QED BY <2>1, <2>2
<1>15. Flows' = Flows /\ Booked' = Booked BY <1>0 DEF Flows, Booked, TradeFlow, EntryCost, ExitProceeds
<1>16. FlowGap = cost /\ BookGap = (IF NSE THEN cost ELSE 0) /\ UnitGap = lots[id].qty
  BY <1>0 DEF Doing, FlowGap, BookGap, UnitGap
<1>17. FlowGap' = 0 /\ BookGap' = 0 /\ UnitGap' = 0
  BY <1>8 DEF Quiet, Tight, Doing, FlowGap, BookGap, UnitGap
<1>18. BooksOK'
  <2>1. /\ cash \in Int /\ Flows \in Int /\ StartingBalance \in Int /\ InventoryCost \in Int
        /\ Booked \in Int /\ Units \in Int /\ Quantity(fifo) \in Int
    BY LedgerNumbers DEF Ledger
  <2>2. /\ cash = StartingBalance + Flows + FlowGap /\ cash + InventoryCost = StartingBalance + Booked + BookGap
        /\ NSE => Quantity(fifo) = Units + UnitGap
    BY DEF Ledger, BooksOK
  <2>6. cost \in Int /\ lots[id].qty \in Int /\ cash' = cash - cost /\ fifo' = fifo BY <1>0, <1>2
  <2>3. cash' \in Int /\ cash' = StartingBalance + Flows' + FlowGap' BY <2>6, <1>15, <1>16, <1>17, <2>1, <2>2
  <2>4. cash' + InventoryCost' = StartingBalance + Booked' + BookGap'
    BY <2>6, <1>14, <1>15, <1>16, <1>17, <2>1, <2>2
  <2>5. NSE => Quantity(fifo') = Units' + UnitGap' BY <2>6, <1>13, <1>16, <1>17, <2>1, <2>2
  <2> QED BY <1>15, <1>19, <2>1, <2>3, <2>4, <2>5 DEF Ledger, BooksOK, Proper
<1> QED BY <1>8, <1>9, <1>12, <1>18 DEF Ledger

-----------------------------------------------------------------------------
(* The transactions of an exit. *)

\* What a lot cost is a number.
LEMMA AcquisitionIsInt ==
  ASSUME RowsOK, BooksOK, NEW id \in DOMAIN lots
  PROVE  AcquisitionCost(id) \in Int
<1>1. lots[id].qty \in Nat /\ lots[id].entryPrice \in Nat BY RowNumbers
<1>2. CASE NSE
  <2>1. fifo \in Seq(Slices) BY DEF BooksOK
  <2>2. MatchCost(fifo, lots[id].qty) \in Int BY <1>1, <2>1, CostsAreNumbers
  <2> QED BY <1>2, <2>2 DEF AcquisitionCost
<1>3. CASE ~NSE
  <2>1. \A a, b \in Nat : a * b \in Int OBVIOUS
  <2> QED BY <1>1, <1>3, <2>1 DEF AcquisitionCost, AcquisitionCostOfLot
<1> QED BY <1>2, <1>3

\* lots.close(): the row is closed, its view and its units are still there.
LEMMA LotClosed == ASSUME Ledger, Close PROVE Ledger'
<1> PICK x : x = Head(todo) OBVIOUS
<1> PICK id : id = x.id OBVIOUS
<1> PICK old : old = lots[id] OBVIOUS
<1> PICK price : price = SellPrice(x.raw) OBVIOUS
<1> PICK pnl : pnl = (price - 2 * UnitFee) * old.qty - x.cost OBVIOUS
<1> PICK row : row = [old EXCEPT !.status = x.status, !.exitAt = x.at, !.cost = x.cost,
                                 !.pnl = pnl, !.unreal = 0, !.last = price] OBVIOUS
<1> PICK y : y = [do |-> "sell", id |-> id, price |-> price, at |-> x.at] OBVIOUS
<1> PICK r : r = Loose(todo) OBVIOUS
<1>0. /\ Then(<<y>>) /\ todo # <<>> /\ x.do = "close" /\ Doing("close")
      /\ lots' = (IF old.status # "OPEN" THEN lots ELSE [lots EXCEPT ![id] = row])
      /\ UNCHANGED <<trades, cash, openLots, fifo>>
  BY DEF Close, Doing, memory
<1>1. Viewed(id) /\ InStock(id) /\ x.raw \in Int /\ x.status # "OPEN" /\ x.cost = AcquisitionCost(id)
  BY <1>0 DEF Ledger, StackOK, HeadOK
<1>2. y.do = "sell" /\ y.id = id /\ y.price = price OBVIOUS
<1>3. todo' = <<y>> \o r /\ Rest(r) /\ todo' # <<>> /\ Head(todo') = y
  BY <1>0, <1>2, HeadReplaced DEF Ledger, Tight
<1>4. /\ Proper(openLots)
      /\ \A i \in DOMAIN openLots : /\ openLots[i].id \in DOMAIN lots
                                    /\ openLots[i].target \in Int /\ openLots[i].last \in Int
                                    /\ lots[openLots[i].id].status = "OPEN"
      /\ \A i, j \in DOMAIN openLots : openLots[i].id = openLots[j].id => i = j
  BY <1>0 DEF Ledger, ViewsOK, Left, Doing
<1>5. id \in DOMAIN lots /\ old.status = "OPEN" BY <1>1, <1>4 DEF Viewed
<1>6. lots' = [lots EXCEPT ![id] = row] BY <1>0, <1>5
<1>7. /\ RowOK(old) /\ old.pnl = 0 /\ old.qty \in Nat \ {0} /\ old.entryPrice \in Nat \ {0}
      /\ {"dep", "num", "entryPrice", "qty", "stop", "status", "pnl"} \subseteq DOMAIN old
  BY <1>5 DEF Ledger, RowsOK, RowOK
<1>8. x.cost \in Int BY <1>1, <1>5, AcquisitionIsInt DEF Ledger
<1>9. price \in Int /\ pnl \in Int
  <2>1. Slippage \in Int /\ UnitFee \in Int BY CostsAreNatural
  <2>2. price \in Int BY <1>1, <2>1 DEF SellPrice
  <2>3. \A a, b, c, d \in Int : (a - 2 * b) * c - d \in Int OBVIOUS
  <2> QED BY <1>7, <1>8, <2>1, <2>2, <2>3
<1>10. /\ row.dep = old.dep /\ row.num = old.num /\ row.entryPrice = old.entryPrice /\ row.qty = old.qty
       /\ row.stop = old.stop /\ row.status = x.status /\ row.pnl = pnl /\ DOMAIN row = DOMAIN old
  BY <1>7
<1>11. RowOK(row) BY <1>1, <1>7, <1>9, <1>10 DEF RowOK
<1>12. /\ Proper(lots') /\ DOMAIN lots' = DOMAIN lots
       /\ \A i \in DOMAIN lots : lots'[i] = IF i = id THEN row ELSE lots[i]
  BY <1>6, ProperUpdate DEF Ledger, RowsOK
<1>13. RowsOK' BY <1>11, <1>12 DEF Ledger, RowsOK, Proper
<1>14. \A i \in DOMAIN lots : lots'[i].qty = lots[i].qty /\ lots'[i].entryPrice = lots[i].entryPrice
  BY <1>10, <1>12
<1>15. UNCHANGED <<trades, cash, openLots, fifo>> BY <1>0
<1>16. ViewsOK'
  <2>1. \A i \in DOMAIN openLots : openLots[i].id # id => lots'[openLots[i].id].status = "OPEN" BY <1>4, <1>12
  <2>2. Left(id)' BY <1>2, <1>3 DEF Left, Doing
  <2> QED BY <1>4, <1>12, <1>15, <2>1, <2>2 DEF ViewsOK, Proper
<1>17. AcquisitionCost(id)' = x.cost /\ InStock(id)'
  BY <1>1, <1>5, <1>14, <1>15 DEF AcquisitionCost, AcquisitionCostOfLot, InStock
<1>18. lots'[id] = row BY <1>5, <1>12
<1>19. HeadOK'
  <2>1. /\ Viewed(id)' /\ InStock(id)' /\ lots'[id].status # "OPEN"
        /\ lots'[id].pnl = (price - 2 * UnitFee) * lots'[id].qty - AcquisitionCost(id)'
    BY <1>1, <1>10, <1>15, <1>17, <1>18 DEF Viewed
  <2>2. Doing("sell")' /\ Head(todo').id = id /\ Head(todo').price = price /\ Head(todo').do = "sell"
    BY <1>2, <1>3 DEF Doing
  <2> QED BY <1>9, <2>1, <2>2 DEF HeadOK, Doing
<1>20. StackOK'
  <2>1. \A a \in DOMAIN ToExit(r) : Viewed(ToExit(r)[a].id)' /\ ToExit(r)[a].id # id
    BY <1>0, <1>15, ExitsViewed DEF Ledger, Viewed
  <2>2. y.do \in Tight /\ y.do \notin {"lot", "buy", "debit"} BY <1>2 DEF Tight
  <2> QED BY <1>2, <1>3, <1>19, <2>1, <2>2, StackTight
<1>21. Booked' = Booked + pnl
  <2> DEFINE n == Len(lots)
             s == [i \in DOMAIN lots |-> lots[i].pnl]
             t == [i \in DOMAIN lots' |-> lots'[i].pnl]
  <2>1. n \in Nat /\ DOMAIN lots = 1..n /\ id \in 1..n BY <1>5, ProperDomain DEF Ledger, RowsOK
  <2>2. DOMAIN s = 1..n /\ DOMAIN t = 1..n BY <1>12, <2>1
  <2>3. Len(s) = n /\ Len(t) = n BY <2>1, <2>2
  <2>4. \A i \in 1..n : s[i] \in Int /\ t[i] \in Int /\ (i # id => t[i] = s[i])
    <3> TAKE i \in 1..n
    <3>1. lots[i].pnl \in Int BY <2>1, RowNumbers DEF Ledger
    <3>2. lots'[i] = IF i = id THEN row ELSE lots[i] BY <1>12, <2>1
    <3>3. s[i] = lots[i].pnl /\ t[i] = lots'[i].pnl BY <1>12, <2>1
    <3>4. row.pnl \in Int BY <1>9, <1>10
    <3> HIDE DEF s, t
    <3> QED BY <3>1, <3>2, <3>3, <3>4
  <2>5. s[id] = 0 /\ t[id] = pnl BY <1>7, <1>10, <1>12, <1>18, <2>1
  <2>6. Booked = SumTo(s, n) /\ Booked' = SumTo(t, n) BY <2>3 DEF Booked, Total
  <2>7. Booked \in Int BY LedgerNumbers DEF Ledger
  <2> HIDE DEF s, t, n
  <2>8. SumTo(t, n) = SumTo(s, n) + t[id] - s[id] BY <2>1, <2>4, SumOfUpdate
  <2> QED BY <1>9, <2>5, <2>6, <2>7, <2>8
<1>22. Units' = Units
  <2>1. [i \in DOMAIN openLots' |-> lots'[openLots'[i].id].qty] = [i \in DOMAIN openLots |-> lots[openLots[i].id].qty]
    BY <1>4, <1>14, <1>15
  <2> QED BY <2>1 DEF Units
<1>23. InventoryCost' = InventoryCost
  <2>1. [i \in DOMAIN openLots' |-> EntryCost(lots'[openLots'[i].id].entryPrice, lots'[openLots'[i].id].qty)]
        = [i \in DOMAIN openLots |-> EntryCost(lots[openLots[i].id].entryPrice, lots[openLots[i].id].qty)]
    BY <1>4, <1>14, <1>15
  <2> QED BY <1>15, <2>1 DEF InventoryCost, SumViews
<1>24. Flows' = Flows BY <1>15 DEF Flows, TradeFlow, EntryCost, ExitProceeds
<1>25. FlowGap = 0 /\ BookGap = 0 /\ UnitGap = 0 BY <1>0 DEF Doing, FlowGap, BookGap, UnitGap
<1>26. FlowGap' = 0 /\ BookGap' = - pnl /\ UnitGap' = 0
  <2>1. todo' # <<>> /\ Head(todo').do = "sell" /\ Head(todo').id = id BY <1>2, <1>3
  <2>2. lots'[Head(todo').id].pnl = pnl BY <1>10, <1>18, <2>1
  <2> QED BY <2>1, <2>2 DEF Doing, FlowGap, BookGap, UnitGap
<1>27. BooksOK'
  <2>1. /\ cash \in Int /\ Flows \in Int /\ StartingBalance \in Int /\ InventoryCost \in Int
        /\ Booked \in Int /\ Units \in Int /\ Quantity(fifo) \in Int
    BY LedgerNumbers DEF Ledger
  <2>2. /\ cash = StartingBalance + Flows + FlowGap /\ cash + InventoryCost = StartingBalance + Booked + BookGap
        /\ NSE => Quantity(fifo) = Units + UnitGap
    BY DEF Ledger, BooksOK
  <2>3. pnl \in Int BY <1>9
  <2>4. cash' = StartingBalance + Flows' + FlowGap' BY <1>15, <1>24, <1>25, <1>26, <2>1, <2>2
  <2>5. cash' + InventoryCost' = StartingBalance + Booked' + BookGap'
    BY <1>15, <1>21, <1>23, <1>25, <1>26, <2>1, <2>2, <2>3
  <2>6. NSE => Quantity(fifo') = Units' + UnitGap' BY <1>15, <1>22, <1>25, <1>26, <2>1, <2>2
  <2> QED BY <1>15, <1>24, <2>1, <2>4, <2>5, <2>6 DEF Ledger, BooksOK, Proper
<1> QED BY <1>13, <1>16, <1>20, <1>27 DEF Ledger

\* The frames below are what is left to do.
LEMMA StackRest ==
  ASSUME NEW r, Rest(r), todo' = r, \A a \in DOMAIN ToExit(r) : Viewed(ToExit(r)[a].id)'
  PROVE  StackOK' /\ ~Between(todo')
<1> PICK s : s = todo' OBVIOUS
<1>1. s = r /\ Proper(s) BY DEF Rest
<1>2. s # <<>> => Quiet(Head(s)) \/ ExitLoop(Head(s)) BY <1>1, RestTail
<1>3. s # <<>> => Head(s).do \notin Tight
  <2>1. "exit" \notin Tight BY DEF Tight
  <2> QED BY <1>2, <2>1 DEF Quiet, ExitLoop
<1>4. Loose(s) = s BY <1>3 DEF Loose
<1>5. HeadOK' BY <1>3 DEF HeadOK, Doing, Tight
<1>6. LoopOK'
  <2>1. Loose(todo') = r BY <1>1, <1>4
  <2>2. ~ (Doing("close") \/ Doing("sell") \/ Doing("credit"))' BY <1>3 DEF Doing, Tight
  <2> QED BY <2>1, <2>2 DEF LoopOK
<1>7. FillOK' BY <1>3 DEF FillOK, Doing, Tight
<1>8. ~Between(s) BY <1>3 DEF Between, Tight
<1> QED BY <1>1, <1>4, <1>5, <1>6, <1>7, <1>8 DEF StackOK

\* Fees and proceeds of a lot, multiplied out.
LEMMA Proceeds ==
  ASSUME NEW price \in Int, NEW fee \in Int, NEW qty \in Int, NEW entry \in Int
  PROVE  /\ (price - fee) * qty \in Int /\ (price - 2 * fee) * qty \in Int /\ fee * qty \in Int
         /\ entry * qty \in Int /\ (entry + fee) * qty \in Int
         /\ (price - 2 * fee) * qty = (price - fee) * qty - fee * qty
         /\ (entry + fee) * qty = entry * qty + fee * qty
<1>1. (price - fee) * qty = price * qty - fee * qty OBVIOUS
<1>2. (price - 2 * fee) * qty = price * qty - 2 * (fee * qty) OBVIOUS
<1>3. (entry + fee) * qty = entry * qty + fee * qty OBVIOUS
<1>4. price * qty \in Int /\ fee * qty \in Int /\ entry * qty \in Int OBVIOUS
<1> DEFINE a == price * qty
           b == fee * qty
           c == entry * qty
           d == (price - fee) * qty
           e == (price - 2 * fee) * qty
           f == (entry + fee) * qty
<1>5. d = a - b /\ e = a - 2 * b /\ f = c + b /\ a \in Int /\ b \in Int /\ c \in Int
  BY <1>1, <1>2, <1>3, <1>4
<1> HIDE DEF a, b, c, d, e, f
<1>6. d \in Int /\ e \in Int /\ f \in Int /\ e = d - b /\ f = c + b BY <1>5
<1> QED BY <1>5, <1>6 DEF a, b, c, d, e, f

\* trades.insert() of the SELL, and the slices it takes from the queue.
LEMMA LotSold == ASSUME Ledger, InsertSell PROVE Ledger'
<1> PICK x : x = Head(todo) OBVIOUS
<1> PICK id : id = x.id OBVIOUS
<1> PICK price : price = x.price OBVIOUS
<1> PICK qty : qty = lots[id].qty OBVIOUS
<1> PICK y : y = [do |-> "credit", id |-> id, price |-> price] OBVIOUS
<1> PICK r : r = Loose(todo) OBVIOUS
<1> PICK t : t = [lot |-> id, side |-> "SELL", qty |-> qty, price |-> price, at |-> x.at] OBVIOUS
<1>0. /\ Then(<<y>>) /\ todo # <<>> /\ x.do = "sell" /\ Doing("sell") /\ trades' = Append(trades, t)
      /\ fifo' = (IF NSE THEN Consume(fifo, qty) ELSE fifo)
      /\ UNCHANGED <<lots, cash, openLots>>
  BY DEF InsertSell, Doing
<1>1. /\ Viewed(id) /\ InStock(id) /\ price \in Int /\ lots[id].status # "OPEN"
      /\ lots[id].pnl = (price - 2 * UnitFee) * qty - AcquisitionCost(id)
  BY <1>0 DEF Ledger, StackOK, HeadOK
<1>2. y.do = "credit" /\ y.id = id /\ y.price = price OBVIOUS
<1>3. todo' = <<y>> \o r /\ Rest(r) /\ todo' # <<>> /\ Head(todo') = y
  BY <1>0, <1>2, HeadReplaced DEF Ledger, Tight
<1>4. UNCHANGED <<lots, cash, openLots>> BY <1>0
<1>5. RowsOK' BY <1>4 DEF Ledger, RowsOK, Proper
<1>6. ViewsOK'
  <2>1. \A i : Left(i)' <=> Left(i) BY <1>0, <1>2, <1>3 DEF Left, Doing
  <2> QED BY <1>4, <2>1 DEF Ledger, ViewsOK, Proper
<1>7. id \in DOMAIN lots BY <1>1 DEF Ledger, ViewsOK, Viewed
<1> PICK entry : entry = lots[id].entryPrice OBVIOUS
<1> PICK pnl : pnl = lots[id].pnl OBVIOUS
<1> PICK cost : cost = AcquisitionCost(id) OBVIOUS
<1> PICK proceeds : proceeds = ExitProceeds(price, qty) OBVIOUS
<1>8. qty \in Nat \ {0} /\ entry \in Nat \ {0} /\ pnl \in Int /\ cost \in Int /\ UnitFee \in Int
  BY <1>7, RowNumbers, AcquisitionIsInt, CostsAreNatural DEF Ledger
<1>9. /\ proceeds \in Int /\ UnitFee * qty \in Int /\ pnl = proceeds - UnitFee * qty - cost
      /\ EntryCost(entry, qty) = entry * qty + UnitFee * qty /\ entry * qty \in Int
      /\ EntryCost(entry, qty) \in Int
  <2>1. qty \in Int /\ entry \in Int BY <1>8
  <2>2. /\ (price - UnitFee) * qty \in Int /\ UnitFee * qty \in Int
        /\ (price - 2 * UnitFee) * qty = (price - UnitFee) * qty - UnitFee * qty
        /\ (entry + UnitFee) * qty = entry * qty + UnitFee * qty
        /\ entry * qty \in Int /\ (entry + UnitFee) * qty \in Int
    BY <1>1, <1>8, <2>1, Proceeds
  <2>3. proceeds = (price - UnitFee) * qty /\ EntryCost(entry, qty) = (entry + UnitFee) * qty
    BY DEF ExitProceeds, EntryCost
  <2>4. pnl = (price - 2 * UnitFee) * qty - cost BY <1>1
  <2> QED BY <2>2, <2>3, <2>4
<1>10. HeadOK'
  <2>1. Viewed(id)' /\ lots'[id].status # "OPEN" BY <1>1, <1>4 DEF Viewed
  <2>2. ~NSE => pnl = ExitProceeds(price, qty) - EntryCost(entry, qty)
    <3>1. ~NSE => cost = entry * qty BY DEF AcquisitionCost, AcquisitionCostOfLot
    <3> QED BY <1>8, <1>9, <3>1
  <2>3. lots'[id].pnl = pnl /\ lots'[id].qty = qty /\ lots'[id].entryPrice = entry BY <1>4
  <2>4. todo' # <<>> /\ Head(todo').do = "credit" /\ Head(todo').id = id /\ Head(todo').price = price
    BY <1>2, <1>3
  <2> QED BY <1>1, <2>1, <2>2, <2>3, <2>4 DEF HeadOK, Doing, ExitProceeds, EntryCost
<1>11. StackOK'
  <2>1. \A a \in DOMAIN ToExit(r) : Viewed(ToExit(r)[a].id)' /\ ToExit(r)[a].id # id
    BY <1>0, <1>4, ExitsViewed DEF Ledger, Viewed
  <2>2. y.do \in Tight /\ y.do \notin {"lot", "buy", "debit"} BY <1>2 DEF Tight
  <2> QED BY <1>2, <1>3, <1>10, <2>1, <2>2, StackTight
<1>12. Proper(trades') /\ Flows' = Flows + proceeds
  <2> DEFINE n == Len(trades)
             f == [i \in DOMAIN trades |-> TradeFlow(trades[i])]
             g == [i \in DOMAIN trades' |-> TradeFlow(trades'[i])]
  <2>1. n \in Nat /\ DOMAIN trades = 1..n BY ProperDomain DEF Ledger, BooksOK
  <2>2. /\ Proper(trades') /\ DOMAIN trades' = 1..(n + 1) /\ trades'[n + 1] = t
        /\ \A i \in 1..n : trades'[i] = trades[i]
    BY <1>0, <2>1, ProperAppend DEF Ledger, BooksOK
  <2>3. DOMAIN f = 1..n /\ DOMAIN g = 1..(n + 1) BY <2>1, <2>2
  <2>4. Len(f) = n /\ Len(g) = n + 1 BY <2>1, <2>3
  <2>5. \A i \in 1..n : g[i] = f[i]
    <3> TAKE i \in 1..n
    <3>1. i \in 1..(n + 1) BY <2>1
    <3> QED BY <2>1, <2>2, <3>1
  <2>6. g[n + 1] = TradeFlow(t)
    <3>1. n + 1 \in 1..(n + 1) BY <2>1
    <3> QED BY <2>2, <3>1
  <2>7. TradeFlow(t) = proceeds BY DEF TradeFlow
  <2>8. Flows = Total(f) /\ Flows' = Total(g) BY DEF Flows, TradeFlow, EntryCost, ExitProceeds
  <2> HIDE DEF f, g, n
  <2>9. Total(g) = Total(f) + g[n + 1] BY <2>1, <2>4, <2>5, TotalOfLonger
  <2> QED BY <2>2, <2>6, <2>7, <2>8, <2>9
<1>13. fifo \in Seq(Slices) BY DEF Ledger, BooksOK
<1>14. NSE => /\ fifo' \in Seq(Slices) /\ Quantity(fifo') = Quantity(fifo) - qty
              /\ Cost(fifo') = Cost(fifo) - cost
  <2> SUFFICES ASSUME NSE
               PROVE  /\ fifo' \in Seq(Slices) /\ Quantity(fifo') = Quantity(fifo) - qty
                      /\ Cost(fifo') = Cost(fifo) - cost
    OBVIOUS
  <2>1. fifo' = Consume(fifo, qty) BY <1>0
  <2>2. qty \in Nat /\ qty <= Quantity(fifo) BY <1>1, <1>8 DEF InStock
  <2>3. cost = MatchCost(fifo, qty) BY DEF AcquisitionCost
  <2>4. /\ Consume(fifo, qty) \in Seq(Slices) /\ Quantity(Consume(fifo, qty)) = Quantity(fifo) - qty
        /\ Cost(Consume(fifo, qty)) = Cost(fifo) - MatchCost(fifo, qty)
    BY <1>13, <2>2, SaleIsMatched
  <2> QED BY <2>1, <2>3, <2>4
<1>15. Booked' = Booked /\ Units' = Units BY <1>4 DEF Booked, Units
<1>16. InventoryCost' = InventoryCost - (IF NSE THEN cost + UnitFee * qty ELSE 0)
  <2>1. CASE NSE
    <3> DEFINE fee == UnitFee
    <3>1. /\ Cost(fifo) \in Int /\ Quantity(fifo) \in Int /\ fee \in Int /\ qty \in Int /\ cost \in Int
      BY <1>8, LedgerNumbers DEF Ledger
    <3>2. InventoryCost = Cost(fifo) + fee * Quantity(fifo) /\ InventoryCost' = Cost(fifo') + fee * Quantity(fifo')
      BY <2>1 DEF InventoryCost
    <3>3. Quantity(fifo') = Quantity(fifo) - qty /\ Cost(fifo') = Cost(fifo) - cost BY <1>14, <2>1
    <3> HIDE DEF fee
    <3>4. fee * (Quantity(fifo) - qty) = fee * Quantity(fifo) - fee * qty BY <3>1
    <3>5. fee * Quantity(fifo) \in Int /\ fee * qty \in Int BY <3>1
    <3>6. InventoryCost' = InventoryCost - (cost + fee * qty) BY <3>1, <3>2, <3>3, <3>4, <3>5
    <3> QED BY <2>1, <3>6 DEF fee
  <2>2. CASE ~NSE
    <3>1. InventoryCost' = InventoryCost BY <1>4, <2>2 DEF InventoryCost, SumViews
    <3>2. InventoryCost \in Int BY LedgerNumbers DEF Ledger
    <3> QED BY <2>2, <3>1, <3>2
  <2> QED BY <2>1, <2>2
<1>17. FlowGap = 0 /\ BookGap = - pnl /\ UnitGap = 0 BY <1>0 DEF Doing, FlowGap, BookGap, UnitGap
<1>18. FlowGap' = - proceeds /\ BookGap' = (IF NSE THEN - proceeds ELSE - pnl) /\ UnitGap' = - qty
  <2>1. todo' # <<>> /\ Head(todo').do = "credit" /\ Head(todo').id = id /\ Head(todo').price = price
    BY <1>2, <1>3
  <2>2. lots'[id].pnl = pnl /\ lots'[id].qty = qty BY <1>4
  <2> QED BY <2>1, <2>2 DEF Doing, FlowGap, BookGap, UnitGap, ExitProceeds
<1>19. BooksOK'
  <2>1. /\ cash \in Int /\ Flows \in Int /\ StartingBalance \in Int /\ InventoryCost \in Int
        /\ Booked \in Int /\ Units \in Int /\ Quantity(fifo) \in Int
    BY LedgerNumbers DEF Ledger
  <2>2. /\ cash = StartingBalance + Flows + FlowGap /\ cash + InventoryCost = StartingBalance + Booked + BookGap
        /\ NSE => Quantity(fifo) = Units + UnitGap
    BY DEF Ledger, BooksOK
  <2> DEFINE fees == UnitFee * qty
  <2>3. proceeds \in Int /\ pnl \in Int /\ cost \in Int /\ qty \in Int /\ fees \in Int /\ pnl = proceeds - fees - cost
    BY <1>8, <1>9
  <2>4. InventoryCost' = InventoryCost - (IF NSE THEN cost + fees ELSE 0) BY <1>16
  <2> HIDE DEF fees
  <2>5. Flows' \in Int /\ cash' = StartingBalance + Flows' + FlowGap'
    BY <1>4, <1>12, <1>17, <1>18, <2>1, <2>2, <2>3
  <2>6. cash' + InventoryCost' = StartingBalance + Booked' + BookGap'
    <3>1. CASE NSE BY <1>4, <1>15, <1>17, <1>18, <2>1, <2>2, <2>3, <2>4, <3>1
    <3>2. CASE ~NSE BY <1>4, <1>15, <1>17, <1>18, <2>1, <2>2, <2>3, <2>4, <3>2
    <3> QED BY <3>1, <3>2
  <2>7. NSE => Quantity(fifo') = Units' + UnitGap'
    <3> SUFFICES ASSUME NSE PROVE Quantity(fifo') = Units' + UnitGap' OBVIOUS
    <3>1. Quantity(fifo') = Quantity(fifo) - qty BY <1>14
    <3>2. Quantity(fifo) = Units + 0 BY <1>17, <2>2
    <3>3. UnitGap' = - qty /\ Units' = Units BY <1>15, <1>18
    <3> QED BY <2>1, <2>3, <3>1, <3>2, <3>3
  <2>8. fifo' \in Seq(Slices) BY <1>0, <1>13, <1>14
  <2> QED BY <1>4, <1>12, <2>1, <2>5, <2>6, <2>7, <2>8 DEF BooksOK, Proper
<1> QED BY <1>5, <1>6, <1>11, <1>19 DEF Ledger

\* What a sale brings, less what the lot cost, is what the books were short of.
LEMMA SaleBalances ==
  ASSUME NEW a \in Int, NEW i \in Int, NEW s \in Int, NEW b \in Int, NEW p \in Int, NEW c \in Int,
         NEW gap, gap = - (p - c), a + i = s + b + gap
  PROVE  (a + p) + (i - c) = s + b + 0
  OBVIOUS

\* accounts.credit(): the view of the lot goes.
LEMMA LotCredited == ASSUME Ledger, Credit PROVE Ledger'
<1> PICK x : x = Head(todo) OBVIOUS
<1> PICK id : id = x.id OBVIOUS
<1> PICK price : price = x.price OBVIOUS
<1> PICK qty : qty = lots[id].qty OBVIOUS
<1> PICK entry : entry = lots[id].entryPrice OBVIOUS
<1> PICK pnl : pnl = lots[id].pnl OBVIOUS
<1> PICK proceeds : proceeds = ExitProceeds(price, qty) OBVIOUS
<1> PICK r : r = Loose(todo) OBVIOUS
<1>0. /\ Then(<<>>) /\ todo # <<>> /\ x.do = "credit" /\ Doing("credit")
      /\ cash' = cash + proceeds /\ openLots' = Without(openLots, id)
      /\ UNCHANGED <<lots, trades, fifo>>
  BY DEF Credit, Doing, Without
<1>1. /\ Viewed(id) /\ price \in Int /\ lots[id].status # "OPEN"
      /\ ~NSE => pnl = proceeds - EntryCost(entry, qty)
  BY <1>0 DEF Ledger, StackOK, HeadOK
<1>2. todo' = r /\ Rest(r)
  <2>1. Loose(todo) = Tail(todo) /\ Rest(Tail(todo)) /\ Proper(Tail(todo))
    BY <1>0, HeadFrame DEF Ledger, Tight
  <2>2. todo' = <<>> \o Tail(todo) BY <1>0 DEF Then
  <2>3. <<>> \o Tail(todo) = Tail(todo) BY <2>1, PushNone
  <2> QED BY <2>1, <2>2, <2>3
<1>3. UNCHANGED <<lots, trades, fifo>> BY <1>0
<1>4. RowsOK' BY <1>3 DEF Ledger, RowsOK, Proper
<1>5. /\ Proper(openLots)
      /\ \A i \in DOMAIN openLots : /\ openLots[i].id \in DOMAIN lots
                                    /\ openLots[i].target \in Int /\ openLots[i].last \in Int
                                    /\ openLots[i].id # id => lots[openLots[i].id].status = "OPEN"
      /\ \A i, j \in DOMAIN openLots : openLots[i].id = openLots[j].id => i = j
  BY <1>0 DEF Ledger, ViewsOK, Left, Doing
<1> PICK rest : rest = Without(openLots, id) OBVIOUS
<1>6. /\ Proper(rest)
      /\ \A a \in DOMAIN rest : \E i \in DOMAIN openLots : rest[a] = openLots[i] /\ openLots[i].id # id
      /\ \A i \in DOMAIN openLots : openLots[i].id # id => \E a \in DOMAIN rest : rest[a] = openLots[i]
      /\ \A a, b \in DOMAIN rest : rest[a].id = rest[b].id => a = b
  BY <1>5, OthersStay
<1>7. openLots' = rest BY <1>0
<1>8. \A a \in DOMAIN rest : /\ rest[a].id \in DOMAIN lots /\ rest[a].target \in Int /\ rest[a].last \in Int
                             /\ lots[rest[a].id].status = "OPEN"
  BY <1>5, <1>6
<1>9. ViewsOK' BY <1>3, <1>6, <1>7, <1>8 DEF ViewsOK, Proper
<1>10. StackOK' /\ ~Between(todo')
  <2>1. ASSUME NEW a \in DOMAIN ToExit(r) PROVE Viewed(ToExit(r)[a].id)'
    <3>1. Viewed(ToExit(r)[a].id) /\ ToExit(r)[a].id # id BY <1>0, ExitsViewed DEF Ledger
    <3>2. PICK i \in DOMAIN openLots : openLots[i].id = ToExit(r)[a].id BY <3>1 DEF Viewed
    <3>3. PICK b \in DOMAIN rest : rest[b] = openLots[i] BY <1>6, <3>1, <3>2
    <3>4. \E c \in DOMAIN rest : rest[c].id = ToExit(r)[a].id BY <3>2, <3>3
    <3> QED BY <1>7, <3>4 DEF Viewed
  <2> QED BY <1>2, <2>1, StackRest
<1>11. PICK k \in DOMAIN openLots : openLots[k].id = id BY <1>1 DEF Viewed
<1>12. id \in DOMAIN lots BY <1>5, <1>11
<1>13. qty \in Nat \ {0} /\ entry \in Nat \ {0} /\ pnl \in Int /\ UnitFee \in Int
       /\ EntryCost(entry, qty) \in Int
  BY <1>12, RowNumbers, CostsAreNatural DEF Ledger
<1>14. proceeds \in Int
  <2>1. (price - UnitFee) * qty \in Int BY <1>1, <1>13, Proceeds
  <2> QED BY <2>1 DEF ExitProceeds
<1>15. Units' = Units - qty
  <2> DEFINE w == [i \in DOMAIN lots |-> lots[i].qty]
  <2>1. Units = Worth(w, openLots) BY WorthsAre DEF Ledger
  <2>2. [i \in DOMAIN rest |-> lots'[rest[i].id].qty] = [i \in DOMAIN rest |-> w[rest[i].id]]
    BY <1>3, <1>8
  <2>3. Units' = Worth(w, rest) BY <1>7, <2>2 DEF Units, Worth
  <2>4. \A i \in DOMAIN openLots : w[openLots[i].id] \in Int BY <1>5, RowNumbers DEF Ledger
  <2>5. w[id] = qty BY <1>12
  <2> HIDE DEF w
  <2>6. Worth(w, Without(openLots, openLots[k].id)) = Worth(w, openLots) - w[openLots[k].id]
    BY <1>5, <1>11, <2>4, WorthOfOthers
  <2> QED BY <1>11, <2>1, <2>3, <2>5, <2>6
<1>16. InventoryCost' = InventoryCost - (IF NSE THEN 0 ELSE EntryCost(entry, qty))
  <2>1. CASE NSE
    <3>1. InventoryCost' = InventoryCost BY <1>3, <2>1 DEF InventoryCost
    <3>2. InventoryCost \in Int BY LedgerNumbers DEF Ledger
    <3> QED BY <2>1, <3>1, <3>2
  <2>2. CASE ~NSE
    <3> DEFINE w == [i \in DOMAIN lots |-> EntryCost(lots[i].entryPrice, lots[i].qty)]
    <3>1. InventoryCost = Worth(w, openLots) BY <2>2, WorthsAre DEF Ledger
    <3>2. [i \in DOMAIN rest |-> EntryCost(lots'[rest[i].id].entryPrice, lots'[rest[i].id].qty)]
            = [i \in DOMAIN rest |-> w[rest[i].id]]
      <4>1. \A i \in DOMAIN rest : rest[i].id \in DOMAIN lots BY <1>8
      <4>2. lots' = lots BY <1>3
      <4> QED BY <4>1, <4>2
    <3>3. InventoryCost' = Worth(w, rest) BY <1>7, <2>2, <3>2 DEF InventoryCost, SumViews, Worth
    <3>4. \A i \in DOMAIN openLots : w[openLots[i].id] \in Int BY <1>5, RowNumbers DEF Ledger
    <3>5. w[id] = EntryCost(entry, qty) BY <1>12
    <3> HIDE DEF w
    <3>6. Worth(w, Without(openLots, openLots[k].id)) = Worth(w, openLots) - w[openLots[k].id]
      BY <1>5, <1>11, <3>4, WorthOfOthers
    <3> QED BY <1>11, <2>2, <3>1, <3>3, <3>5, <3>6
  <2> QED BY <2>1, <2>2
<1>17. Flows' = Flows /\ Booked' = Booked BY <1>3 DEF Flows, Booked, TradeFlow, EntryCost, ExitProceeds
<1>18. FlowGap = - proceeds /\ BookGap = (IF NSE THEN - proceeds ELSE - pnl) /\ UnitGap = - qty
  BY <1>0 DEF Doing, FlowGap, BookGap, UnitGap
<1>19. FlowGap' = 0 /\ BookGap' = 0 /\ UnitGap' = 0
  BY <1>10 DEF Between, Doing, FlowGap, BookGap, UnitGap
<1>20. BooksOK'
  <2>1. /\ cash \in Int /\ Flows \in Int /\ StartingBalance \in Int /\ InventoryCost \in Int
        /\ Booked \in Int /\ Units \in Int /\ Quantity(fifo) \in Int
    BY LedgerNumbers DEF Ledger
  <2>2. /\ cash = StartingBalance + Flows + FlowGap /\ cash + InventoryCost = StartingBalance + Booked + BookGap
        /\ NSE => Quantity(fifo) = Units + UnitGap
    BY DEF Ledger, BooksOK
  <2> PICK c : c = EntryCost(entry, qty) OBVIOUS
  <2>3. proceeds \in Int /\ pnl \in Int /\ qty \in Int /\ c \in Int
    BY <1>13, <1>14
  <2>4. cash' = cash + proceeds /\ fifo' = fifo BY <1>0
  <2>5. cash' \in Int /\ cash' = StartingBalance + Flows' + FlowGap'
    <3>1. FlowGap = - proceeds BY <1>18
    <3>2. cash = StartingBalance + Flows - proceeds BY <2>1, <2>2, <2>3, <3>1
    <3>3. cash + proceeds = StartingBalance + Flows + 0 /\ cash + proceeds \in Int BY <2>1, <2>3, <3>2
    <3> QED BY <1>17, <1>19, <2>4, <3>3
  <2>6. cash' + InventoryCost' = StartingBalance + Booked' + BookGap'
    <3>1. CASE NSE
      <4>1. BookGap = - proceeds BY <1>18, <3>1
      <4>2. InventoryCost' = InventoryCost - 0 BY <1>16, <3>1
      <4>3. cash + InventoryCost = StartingBalance + Booked - proceeds BY <2>1, <2>2, <2>3, <4>1
      <4>4. (cash + proceeds) + (InventoryCost - 0) = StartingBalance + Booked + 0 BY <2>1, <2>3, <4>3
      <4> QED BY <1>17, <1>19, <2>4, <4>2, <4>4
    <3>2. CASE ~NSE
      <4>1. BookGap = - (proceeds - c)
        <5>1. BookGap = - pnl /\ pnl = proceeds - c BY <1>1, <1>18, <3>2
        <5> QED BY <5>1
      <4>2. InventoryCost' = InventoryCost - c BY <1>16, <3>2
      <4>3. cash + InventoryCost = StartingBalance + Booked + BookGap BY <2>2
      <4>4. (cash + proceeds) + (InventoryCost - c) = StartingBalance + Booked + 0
        BY <2>1, <2>3, <4>1, <4>3, SaleBalances
      <4> QED BY <1>17, <1>19, <2>4, <4>2, <4>4
    <3> QED BY <3>1, <3>2
  <2>7. NSE => Quantity(fifo') = Units' + UnitGap'
    <3> SUFFICES ASSUME NSE PROVE Quantity(fifo') = Units' + UnitGap' OBVIOUS
    <3>1. Quantity(fifo) = Units - qty
      <4>1. UnitGap = - qty /\ Quantity(fifo) = Units + UnitGap BY <1>18, <2>2
      <4> QED BY <2>1, <2>3, <4>1
    <3>2. Quantity(fifo) = (Units - qty) + 0 BY <2>1, <2>3, <3>1
    <3> QED BY <1>15, <1>19, <2>4, <3>2
  <2> QED BY <1>3, <1>17, <2>1, <2>5, <2>6, <2>7 DEF Ledger, BooksOK, Proper
<1> QED BY <1>4, <1>9, <1>10, <1>20 DEF Ledger

-----------------------------------------------------------------------------
(* The steps that leave the books alone. *)

\* A loop goes on with the items that are left.
LEMMA LoopFrame ==
  ASSUME NEW x, NEW items
  PROVE  LET y == [x EXCEPT !.left = items]
         IN  /\ DOMAIN y = DOMAIN x
             /\ \A name \in DOMAIN x : name # "left" => y[name] = x[name]
             /\ "left" \in DOMAIN x => y.left = items
  OBVIOUS

\* A loop over quiet frames goes on above quiet frames.
LEMMA QuietsLoop ==
  ASSUME NEW x, NEW items, items # <<>> => Quiet([x EXCEPT !.left = items])
  PROVE  Quiets(Loop(x, items))
<1>1. CASE items = <<>> BY <1>1, QuietsNone DEF Loop
<1>2. CASE items # <<>> BY <1>2, QuietsOne DEF Loop
<1> QED BY <1>1, <1>2

\* After a step of a quiet frame.
LEMMA QuietsThen ==
  ASSUME StackOK, todo # <<>>, Head(todo).do \notin Tight, NEW f, Quiets(f), Then(f)
  PROVE  Quiets(todo')
<1>1. Quiets(Tail(todo)) BY HeadFrame
<1>2. todo' = f \o Tail(todo) BY DEF Then
<1> QED BY <1>1, <1>2, QuietsConcat

\* A quiet frame at the top stands between no two transactions.
LEMMA NothingTight ==
  ASSUME todo = <<>> \/ Head(todo).do \notin Tight
  PROVE  ~Between(todo)
  BY DEF Between, Tight

\* A step that marks, below which quiet frames are left, keeps the books.
LEMMA LedgerStays ==
  ASSUME Ledger, todo = <<>> \/ Head(todo).do \notin Tight, Quiets(todo'),
         SameRows, SameViews, UNCHANGED <<fifo, trades, cash>>
  PROVE  Ledger'
<1>1. ~Between(todo) BY NothingTight
<1>2. StackOK' /\ (todo' # <<>> => Quiet(Head(todo'))) BY StackQuiet
<1>3. ~Between(todo') BY <1>2 DEF Between, Quiet, Tight
<1>4. RowsOK' /\ ViewsOK' /\ BooksOK' BY <1>1, <1>3, LedgerKept DEF Ledger
<1> QED BY <1>2, <1>4 DEF Ledger

\* Nothing is written but instructions, settings and clocks.
LEMMA BooksUntouched ==
  ASSUME Ledger, todo = <<>> \/ Head(todo).do \notin Tight, Quiets(todo'),
         UNCHANGED <<lots, openLots, fifo, trades, cash>>
  PROVE  Ledger'
<1>1. SameRows BY RowsUnchanged DEF Ledger
<1>2. SameViews BY ViewsUnchanged DEF Ledger
<1> QED BY <1>1, <1>2, LedgerStays

\* The frame that runs is quiet.
LEMMA QuietHead ==
  ASSUME StackOK, NEW step, Doing(step), step \notin Tight \cup {"exit"}
  PROVE  /\ todo # <<>> /\ Head(todo).do = step /\ Head(todo).do \notin Tight
         /\ Quiet(Head(todo)) /\ Quiets(Tail(todo))
  BY HeadFrame DEF Doing

\* orders.insert_pending() writes no money.
LEMMA Persisted == ASSUME Ledger, Persist PROVE Ledger'
<1>1. Doing("persist") /\ "persist" \notin Tight \cup {"exit"} BY DEF Persist, Tight
<1>2. todo # <<>> /\ Head(todo).do \notin Tight BY <1>1, QuietHead DEF Ledger
<1>3. Then(<<>>) /\ UNCHANGED <<lots, openLots, fifo, trades, cash>> BY DEF Persist
<1>4. Quiets(todo') BY <1>2, <1>3, QuietsNone, QuietsThen DEF Ledger
<1> QED BY <1>2, <1>3, <1>4, BooksUntouched

\* Deleting the row of a pending instruction writes no money.
LEMMA PendingDeleted == ASSUME Ledger, DeletePending PROVE Ledger'
<1>1. Doing("delete") /\ "delete" \notin Tight \cup {"exit"} BY DEF DeletePending, Tight
<1>2. todo # <<>> /\ Head(todo).do \notin Tight BY <1>1, QuietHead DEF Ledger
<1>3. Then(<<>>) /\ UNCHANGED <<lots, openLots, fifo, trades, cash>> BY DEF DeletePending, memory
<1>4. Quiets(todo') BY <1>2, <1>3, QuietsNone, QuietsThen DEF Ledger
<1> QED BY <1>2, <1>3, <1>4, BooksUntouched

\* The instructions that are left.
LEMMA EntriesTail == ASSUME NEW s, Entries(s), s # <<>>
                     PROVE Entries(Tail(s)) /\ Head(s).dep \in Deployments
  BY ProperTail DEF Entries

\* One instruction of the queue is looked at.
LEMMA Considered == ASSUME Ledger, Consider PROVE Ledger'
<1> PICK x : x = Head(todo) OBVIOUS
<1>1. Doing("consider") /\ "consider" \notin Tight \cup {"exit"} BY DEF Consider, Tight
<1>2. todo # <<>> /\ x.do = "consider" /\ Head(todo).do \notin Tight /\ Quiet(x)
  BY <1>1, QuietHead DEF Ledger
<1>3. /\ {"do", "left", "bar"} \subseteq DOMAIN x
      /\ Entries(x.left) /\ x.left # <<>> /\ Priced(x.bar)
  BY <1>2 DEF Quiet
<1>4. Entries(Tail(x.left)) /\ Head(x.left).dep \in Deployments BY <1>3, EntriesTail
<1>5. Quiets(Others)
  <2> DEFINE y == [x EXCEPT !.left = Tail(x.left)]
  <2>1. DOMAIN y = DOMAIN x /\ y.do = "consider" /\ y.left = Tail(x.left) /\ y.bar = x.bar
    BY <1>2, <1>3, LoopFrame
  <2> HIDE DEF y
  <2>2. Tail(x.left) # <<>> => Quiet(y) BY <1>3, <1>4, <2>1 DEF Quiet, Tight
  <2>3. Quiets(Loop(x, Tail(x.left))) BY <2>2, QuietsLoop DEF y
  <2> QED BY <2>3 DEF Others
<1> DEFINE fill == [do |-> "fill", p |-> Item, ref |-> Head(todo).bar.o, ts |-> Head(todo).bar.ts]
           delete == [do |-> "delete", p |-> Item]
<1>6. Item = Head(x.left) BY DEF Item
<1>7. Quiet(delete) BY DEF Quiet, Tight
<1>8. Quiet(fill)
  <2>1. Item.dep \in Deployments /\ Head(todo).bar.o \in Nat \ {0} BY <1>3, <1>4, <1>6 DEF Priced
  <2> QED BY <2>1 DEF Quiet, Tight
<1>9. Then(<<delete>> \o Others) \/ Then(<<fill, delete>> \o Others) \/ Then(Others)
  BY DEF Consider
<1> HIDE DEF fill, delete
<1>10. Quiets(<<delete>> \o Others) /\ Quiets(<<fill, delete>> \o Others)
  BY <1>5, <1>7, <1>8, QuietsOne, QuietsTwo, QuietsConcat
<1>11. Quiets(todo') BY <1>2, <1>5, <1>9, <1>10, QuietsThen DEF Ledger
<1>12. UNCHANGED <<lots, openLots, fifo, trades, cash>> BY DEF Consider, db, memory
<1> QED BY <1>2, <1>11, <1>12, BooksUntouched

\* The frames of the marks, or the exception.
LEMMA MarksQuiet ==
  ASSUME StackOK, todo # <<>>, Head(todo).do \notin Tight, NEW ids, NEW close \in Int, NEW frames,
         Quiets(frames), MarkThen(ids, close, frames)
  PROVE  Quiets(todo')
<1>1. CASE Raise BY <1>1, QuietsNone DEF Raise
<1>2. CASE Then(Loop([do |-> "mark", left |-> <<>>, close |-> close], InOrder(ids)) \o frames)
  <2> DEFINE x == [do |-> "mark", left |-> <<>>, close |-> close]
             items == InOrder(ids)
             y == [x EXCEPT !.left = items]
  <2>1. y = [do |-> "mark", left |-> items, close |-> close] OBVIOUS
  <2>2. Quiet(y)
    <3> HIDE DEF items
    <3> QED BY <2>1 DEF Quiet, Tight
  <2> HIDE DEF x, items
  <2>3. Quiets(Loop(x, items)) BY <2>2, QuietsLoop
  <2>4. Quiets(Loop(x, items) \o frames) BY <2>3, QuietsConcat
  <2> QED BY <1>2, <2>4, QuietsThen DEF x, items
<1> QED BY <1>1, <1>2 DEF MarkThen

\* The marks after a fill or an exit.
LEMMA Remarked == ASSUME Ledger, Remark PROVE Ledger'
<1>1. Doing("remark") /\ "remark" \notin Tight \cup {"exit"} BY DEF Remark, Tight
<1>2. todo # <<>> /\ Head(todo).do = "remark" /\ Head(todo).do \notin Tight /\ Quiet(Head(todo))
  BY <1>1, QuietHead DEF Ledger
<1>3. Head(todo).close \in Int BY <1>2 DEF Quiet
<1>4. MarkThen(Ids(openLots), Head(todo).close, <<>>) BY DEF Remark
<1>5. Quiets(todo') BY <1>2, <1>3, <1>4, QuietsNone, MarksQuiet DEF Ledger
<1>6. UNCHANGED <<lots, openLots, fifo, trades, cash>> BY DEF Remark, db, memory
<1> QED BY <1>2, <1>5, <1>6, BooksUntouched

\* The settings that wait for a flat deployment.
LEMMA Settled == ASSUME Ledger, Settle PROVE Ledger'
<1>1. Doing("settle") /\ "settle" \notin Tight \cup {"exit"} BY DEF Settle, Tight
<1>2. todo # <<>> /\ Head(todo).do = "settle" /\ Head(todo).do \notin Tight /\ Quiet(Head(todo))
  BY <1>1, QuietHead DEF Ledger
<1>3. Head(todo).bar.c \in Int BY <1>2 DEF Quiet, Priced
<1> DEFINE remaining == InScope(Head(todo).ch)
           x == [do |-> "ladder", left |-> <<>>, bar |-> Head(todo).bar]
           items == DeploymentsOf(remaining)
<1>4. MarkThen(Ids(remaining), Head(todo).bar.c, Loop(x, items)) BY DEF Settle
<1>5. Quiet([x EXCEPT !.left = items])
  <2>1. [x EXCEPT !.left = items] = [do |-> "ladder", left |-> items, bar |-> Head(todo).bar] OBVIOUS
  <2> HIDE DEF items
  <2> QED BY <2>1 DEF Quiet, Tight
<1> HIDE DEF x, items, remaining
<1>6. Quiets(Loop(x, items)) BY <1>5, QuietsLoop
<1>7. Quiets(todo') BY <1>2, <1>3, <1>4, <1>6, MarksQuiet DEF Ledger
<1>8. UNCHANGED <<lots, openLots, fifo, trades, cash>> BY DEF Settle, db, memory
<1> QED BY <1>2, <1>7, <1>8, BooksUntouched

-----------------------------------------------------------------------------
(* The marks, the ladder, and the start of the exit loop. *)

\* Rounding up gives a number.
LEMMA CeilDivIsInt == ASSUME NEW a \in Int, NEW b \in Nat \ {0} PROVE CeilDiv(a, b) \in Int
  BY DEF CeilDiv

\* The view of an open lot.
LEMMA ViewOfIs ==
  ASSUME NEW id, Viewed(id)
  PROVE  \E i \in DOMAIN openLots : openLots[i].id = id /\ ViewOf(id) = openLots[i]
<1> DEFINE v == ViewOf(id)
<1>1. \E w \in ToSet(openLots) : w.id = id BY DEF Viewed, ToSet
<1>2. v \in ToSet(openLots) /\ v.id = id BY <1>1 DEF ViewOf
<1> HIDE DEF v
<1>3. PICK i \in DOMAIN openLots : v = openLots[i] BY <1>2 DEF ToSet
<1> QED BY <1>2, <1>3 DEF v

\* The target that a mark computes is a number.
LEMMA MarkTargetIsInt ==
  ASSUME Ledger, NSE, NEW id \in DOMAIN lots
  PROVE  NetProfitTarget(AcquisitionCost(id) + UnitFee * lots[id].qty, lots[id].qty,
                         Config[lots[id].dep].targetPct, Slippage + UnitFee) \in Int
<1> DEFINE qty == lots[id].qty
           cost == AcquisitionCost(id)
           pct == Config[lots[id].dep].targetPct
<1>1. qty \in Nat \ {0} /\ UnitFee \in Nat /\ Slippage \in Nat /\ cost \in Int
  BY RowNumbers, AcquisitionIsInt, CostsAreNatural DEF Ledger
<1>2. pct \in Nat
  <2>1. lots[id].dep \in Deployments BY DEF Ledger, RowsOK, RowOK
  <2> QED BY <2>1, ConfigsAreValid
<1> HIDE DEF qty, cost, pct
<1>3. \A a, b \in Int : a * b \in Int /\ a + b \in Int OBVIOUS
<1> DEFINE paid == (cost + UnitFee * qty) * (100 + pct)
<1>4. paid \in Int
  <2>1. UnitFee * qty \in Int BY <1>1, <1>3
  <2>2. cost + UnitFee * qty \in Int /\ 100 + pct \in Int BY <1>1, <1>2, <2>1
  <2> QED BY <1>3, <2>2
<1> HIDE DEF paid
<1>5. CeilDiv(paid, 100) \in Int
  <2>1. 100 \in Nat \ {0} OBVIOUS
  <2> QED BY <1>4, <2>1, CeilDivIsInt
<1>6. CeilDiv(CeilDiv(paid, 100), qty) \in Int BY <1>1, <1>5, CeilDivIsInt
<1>7. CeilDiv(CeilDiv(paid, 100), qty) + (Slippage + UnitFee) \in Int BY <1>1, <1>6
<1> QED BY <1>7 DEF NetProfitTarget, paid, qty, cost, pct

\* lots.mark() keeps units, prices and booked profits.
LEMMA Marked == ASSUME Ledger, Mark PROVE Ledger'
<1> PICK x : x = Head(todo) OBVIOUS
<1> PICK id : id = Item OBVIOUS
<1>1. Doing("mark") /\ "mark" \notin Tight \cup {"exit"} BY DEF Mark, Tight
<1>2. todo # <<>> /\ x.do = "mark" /\ Head(todo).do \notin Tight /\ Quiet(x)
  BY <1>1, QuietHead DEF Ledger
<1>3. "do" \in DOMAIN x /\ "close" \in DOMAIN x /\ x.close \in Int BY <1>2 DEF Quiet
<1> DEFINE target == IF NSE THEN NetProfitTarget(AcquisitionCost(id) + UnitFee * lots[id].qty, lots[id].qty,
                                                 Config[lots[id].dep].targetPct, Slippage + UnitFee)
                     ELSE ViewOf(id).target
           cost == AcquisitionCost(id)
           unreal == (x.close - UnitFee) * lots[id].qty - cost
           view == [id |-> id, target |-> target, cost |-> cost, unreal |-> unreal, last |-> x.close]
<1>4. /\ MarkRow(id, cost, target, unreal, x.close)
      /\ openLots' = [i \in DOMAIN openLots |-> IF openLots[i].id = id THEN view ELSE openLots[i]]
      /\ Then(Others) /\ UNCHANGED <<trades, cash, fifo>>
  BY DEF Mark
<1>5. ASSUME NEW i \in DOMAIN openLots, openLots[i].id = id PROVE target \in Int
  <2>1. id \in DOMAIN lots BY <1>5 DEF Ledger, ViewsOK
  <2>2. Viewed(id) BY <1>5 DEF Viewed
  <2>3. CASE NSE BY <2>1, <2>3, MarkTargetIsInt
  <2>4. CASE ~NSE
    <3>1. PICK j \in DOMAIN openLots : openLots[j].id = id /\ ViewOf(id) = openLots[j] BY <2>2, ViewOfIs
    <3>2. openLots[j].target \in Int BY DEF Ledger, ViewsOK
    <3> QED BY <2>4, <3>1, <3>2
  <2> QED BY <2>3, <2>4
<1>6. SameRows
  <2> HIDE DEF cost, target, unreal
  <2> QED BY <1>4, MarkKeepsRows DEF Ledger
<1>7. SameViews
  <2>1. view.id = id /\ view.target = target /\ view.last = x.close OBVIOUS
  <2> HIDE DEF view, target
  <2>2. DOMAIN openLots' = DOMAIN openLots BY <1>4
  <2>3. \A i \in DOMAIN openLots : openLots'[i] = IF openLots[i].id = id THEN view ELSE openLots[i] BY <1>4
  <2>4. \A i \in DOMAIN openLots : openLots'[i].id = openLots[i].id /\ openLots'[i].target \in Int /\ openLots'[i].last \in Int
    BY <1>3, <1>5, <2>1, <2>3 DEF Ledger, ViewsOK
  <2>5. Proper(openLots')
    <3> DEFINE n == Len(openLots)
               S == ToSet(openLots) \cup {view}
    <3>1. n \in Nat /\ DOMAIN openLots = 1..n BY ProperDomain DEF Ledger, ViewsOK
    <3>2. \A i \in DOMAIN openLots : openLots'[i] \in S BY <2>3 DEF ToSet
    <3>3. openLots' \in [1..n -> S]
      <4> HIDE DEF S, n
      <4> QED BY <1>4, <2>2, <3>1, <3>2
    <3> HIDE DEF S, n
    <3> QED BY <3>1, <3>3, SeqOfFunction, ProperSeq
  <2> QED BY <2>2, <2>4, <2>5 DEF SameViews
<1>8. Quiets(Others)
  <2> DEFINE items == Tail(x.left)
             y == [x EXCEPT !.left = items]
  <2> HIDE DEF items
  <2>1. DOMAIN y = DOMAIN x /\ y.do = "mark" /\ y.close = x.close BY <1>2, <1>3, LoopFrame
  <2> HIDE DEF y
  <2>2. Quiet(y) BY <1>3, <2>1 DEF Quiet, Tight
  <2>3. Quiets(Loop(x, items)) BY <2>2, QuietsLoop DEF y
  <2> QED BY <2>3 DEF Others, items
<1>9. Quiets(todo') BY <1>2, <1>4, <1>8, QuietsThen DEF Ledger
<1> HIDE DEF target, cost, unreal, view
<1>10. UNCHANGED <<trades, cash, fifo>> BY <1>4
<1> QED BY <1>2, <1>6, <1>7, <1>9, <1>10, LedgerStays

\* A deployment that holds lots is one of the market's.
LEMMA HeldDeployment ==
  ASSUME RowsOK, Shown, NEW d, LotsFor(d) # <<>> PROVE d \in Deployments
<1> DEFINE places == {i \in DOMAIN openLots : lots[openLots[i].id].dep = d}
           rest == Only(openLots, places)
<1>1. rest # <<>> BY DEF LotsFor
<1> HIDE DEF places
<1>2. Proper(rest) /\ \A a \in DOMAIN rest : \E i \in DOMAIN openLots : rest[a] = openLots[i] /\ i \in places
  BY OnlyKeeps DEF Shown
<1> HIDE DEF rest
<1>3. 1 \in DOMAIN rest BY <1>1, <1>2, ProperTail
<1>4. PICK i \in DOMAIN openLots : i \in places BY <1>2, <1>3
<1>5. lots[openLots[i].id].dep = d BY <1>4 DEF places
<1>6. openLots[i].id \in DOMAIN lots BY DEF Shown
<1> QED BY <1>5, <1>6 DEF RowsOK, RowOK

\* The ladder exit of a cycle starts the loop or nothing.
LEMMA LadderSeen == ASSUME Ledger, Ladder PROVE Ledger'
<1> PICK x : x = Head(todo) OBVIOUS
<1>1. Doing("ladder") /\ "ladder" \notin Tight \cup {"exit"} BY DEF Ladder, Tight
<1>2. todo # <<>> /\ x.do = "ladder" /\ Head(todo).do \notin Tight /\ Quiet(x)
  BY <1>1, QuietHead DEF Ledger
<1>3. Quiets(Others)
  <2> DEFINE items == Tail(x.left)
             y == [x EXCEPT !.left = items]
  <2> HIDE DEF items
  <2>1. DOMAIN y = DOMAIN x /\ y.do = "ladder" BY <1>2, LoopFrame DEF Quiet
  <2> HIDE DEF y
  <2>2. Quiet(y) BY <1>2, <2>1 DEF Quiet, Tight
  <2>3. Quiets(Loop(x, items)) BY <2>2, QuietsLoop DEF y
  <2> QED BY <2>3 DEF Others, items
<1> DEFINE p == [sig |-> NoSignal, dep |-> Item, ts |-> Head(todo).bar.ts, price |-> Head(todo).bar.c,
                 created |-> Now, cycle |-> EntryCycle(Item), num |-> EntryNumber(Item) + 1]
           frame == [do |-> "persist", p |-> p]
<1>4. IF LadderDue(Item, Head(todo).bar.c) THEN Then(<<frame>> \o Others) ELSE Then(Others)
  BY DEF Ladder
<1>5. ASSUME LadderDue(Item, Head(todo).bar.c) PROVE Quiets(<<frame>> \o Others)
  <2>1. Item \in Deployments BY <1>5, ViewsAreShown, HeldDeployment DEF LadderDue, Ledger
  <2>2. frame.do = "persist" /\ frame.p.dep \in Deployments /\ "do" \in DOMAIN frame BY <2>1
  <2> HIDE DEF frame
  <2>3. Quiet(frame) BY <2>2 DEF Quiet, Tight
  <2> QED BY <1>3, <2>3, QuietsOne, QuietsConcat
<1> HIDE DEF frame
<1>6. Quiets(todo') BY <1>2, <1>3, <1>4, <1>5, QuietsThen DEF Ledger
<1>7. UNCHANGED <<lots, openLots, fifo, trades, cash>> BY DEF Ladder, db, memory
<1> QED BY <1>2, <1>6, <1>7, BooksUntouched

\* Three stacks put together.
LEMMA ThreeStacks == ASSUME NEW s, NEW t, NEW u, Proper(s), Proper(t), Proper(u)
                     PROVE (s \o t) \o u = s \o (t \o u)
<1> DEFINE S == ToSet(s) \cup ToSet(t) \cup ToSet(u)
<1>1. s \in Seq(S) /\ t \in Seq(S) /\ u \in Seq(S) BY DEF Proper
<1> HIDE DEF S
<1> QED BY <1>1, ConcatAssociative

\* A frame put on a loop that is put on the others.
OnLoop(x, loop, others) == <<x>> \o (loop \o others)
WithLoop(x, loop, others) == (<<x>> \o loop) \o others

\* A frame, the loop and the others, put together either way.
LEMMA FramePushed ==
  ASSUME NEW x, NEW loop, NEW others, Proper(loop), Proper(others)
  PROVE  WithLoop(x, loop, others) = OnLoop(x, loop, others)
<1>1. <<x>> \in Seq({x}) OBVIOUS
<1>2. Proper(<<x>>) BY <1>1, ProperSeq
<1>3. (<<x>> \o loop) \o others = <<x>> \o (loop \o others) BY <1>2, ThreeStacks
<1> QED BY <1>3 DEF OnLoop, WithLoop

\* The lots that a feed may close: each once.
LEMMA ScopeViewed ==
  ASSUME Shown, NEW ch
  PROVE  LET left == InScope(ch)
         IN  /\ Proper(left)
             /\ \A a, b \in DOMAIN left : left[a].id = left[b].id => a = b
             /\ \A a \in DOMAIN left : Viewed(left[a].id)
<1> DEFINE places == {i \in DOMAIN openLots : Hears(ch, lots[openLots[i].id].dep)}
           left == Only(openLots, places)
<1>1. InScope(ch) = left BY DEF InScope
<1>2. Proper(openLots) /\ \A i, j \in DOMAIN openLots : openLots[i].id = openLots[j].id => i = j BY DEF Shown
<1> HIDE DEF places
<1>3. /\ Proper(left)
      /\ \A a \in DOMAIN left : \E i \in DOMAIN openLots : left[a] = openLots[i]
      /\ \A a, b \in DOMAIN left : left[a].id = left[b].id => a = b
  BY <1>2, OnlyKeeps
<1> HIDE DEF left
<1>4. \A a \in DOMAIN left : Viewed(left[a].id) BY <1>3 DEF Viewed
<1> QED BY <1>1, <1>3, <1>4

\* What is left of the loop runs on, and the books stay.
LEMMA LedgerInRest ==
  ASSUME Ledger, todo = <<>> \/ Head(todo).do \notin Tight, NEW r, Rest(r), todo' = r,
         \A a \in DOMAIN ToExit(r) : Viewed(ToExit(r)[a].id),
         SameRows, SameViews, UNCHANGED <<fifo, trades, cash>>
  PROVE  Ledger'
<1>1. ~Between(todo) BY NothingTight
<1>2. \A a \in DOMAIN ToExit(r) : Viewed(ToExit(r)[a].id)' BY SumsKept DEF Ledger
<1>3. StackOK' /\ ~Between(todo') BY <1>2, StackRest
<1>4. RowsOK' /\ ViewsOK' /\ BooksOK' BY <1>1, <1>3, LedgerKept DEF Ledger
<1> QED BY <1>3, <1>4 DEF Ledger

\* The exit rules of a bar start the loop over their lots.
LEMMA Swept == ASSUME Ledger, Sweep PROVE Ledger'
<1> PICK x : x = Head(todo) OBVIOUS
<1> PICK left : left = InScope(x.ch) OBVIOUS
<1>1. Doing("sweep") /\ "sweep" \notin Tight \cup {"exit"} BY DEF Sweep, Tight
<1>2. todo # <<>> /\ Head(todo).do \notin Tight /\ Quiet(x) /\ Quiets(Tail(todo)) /\ x.do = "sweep"
  BY <1>1, QuietHead DEF Ledger
<1>3. Priced(x.bar) BY <1>2 DEF Quiet
<1> DEFINE loop == [do |-> "exit", left |-> <<>>, bar |-> x.bar]
           settle == [do |-> "settle", bar |-> x.bar, ch |-> x.ch]
           exit == [do |-> "exit", left |-> left, bar |-> x.bar]
<1>4. Quiet(settle) BY <1>3 DEF Quiet, Tight
<1>5. Then(Loop(loop, left) \o <<settle>>) BY DEF Sweep
<1>6. [loop EXCEPT !.left = left] = exit OBVIOUS
<1>7. exit.do = "exit" /\ exit.left = left /\ exit.bar = x.bar /\ DOMAIN exit = {"do", "left", "bar"} OBVIOUS
<1> HIDE DEF loop, settle, exit
<1>8. UNCHANGED <<lots, openLots, fifo, trades, cash>> BY DEF Sweep, db
<1>9. CASE left = <<>>
  <2>1. Loop(loop, left) = <<>> BY <1>9 DEF Loop
  <2>2. Quiets(<<>> \o <<settle>>) BY <1>4, QuietsNone, QuietsOne, QuietsConcat
  <2>3. Quiets(todo') BY <1>2, <1>5, <2>1, <2>2, QuietsThen DEF Ledger
  <2> QED BY <1>2, <1>8, <2>3, BooksUntouched
<1>10. CASE left # <<>>
  <2>1. Loop(loop, left) = <<exit>> BY <1>6, <1>10 DEF Loop
  <2>2. Quiets(<<settle>>) /\ Proper(<<exit>>)
    <3>1. <<exit>> \in Seq({exit}) OBVIOUS
    <3> QED BY <1>4, <3>1, QuietsOne, ProperSeq
  <2>3. todo' = (<<exit>> \o <<settle>>) \o Tail(todo) BY <1>5, <2>1 DEF Then
  <2>4. todo' = <<exit>> \o (<<settle>> \o Tail(todo))
    BY <1>2, <2>2, <2>3, ThreeStacks DEF Quiets
  <2> PICK r : r = <<settle>> \o Tail(todo) OBVIOUS
  <2>5. Quiets(r) BY <1>2, <2>2, QuietsConcat
  <2>6. /\ Proper(left) /\ \A a, b \in DOMAIN left : left[a].id = left[b].id => a = b
        /\ \A a \in DOMAIN left : Viewed(left[a].id)
    BY ViewsAreShown, ScopeViewed DEF Ledger
  <2>7. ExitLoop(exit) BY <1>3, <1>7, <1>10, <2>6 DEF ExitLoop
  <2>8. SameRows /\ SameViews BY <1>8, RowsUnchanged, ViewsUnchanged DEF Ledger
  <2> PICK s : s = <<exit>> \o r OBVIOUS
  <2>9. Rest(s) /\ ToExit(s) = left BY <1>7, <2>5, <2>7, ExitRest
  <2>10. todo' = s /\ UNCHANGED <<fifo, trades, cash>> BY <1>8, <2>4
  <2> QED BY <1>2, <2>6, <2>8, <2>9, <2>10, LedgerInRest
<1> QED BY <1>9, <1>10
-----------------------------------------------------------------------------
(* The account is wiped. *)

\* The sum of nothing.
LEMMA TotalOfNone == ASSUME NEW s, s \in [1..0 -> Int] PROVE Total(s) = 0
<1>1. Len(s) = 0
  <2>1. 0 \in Nat OBVIOUS
  <2> QED BY <2>1, SeqOfFunction
<1>2. SumTo(s, 0) = 0 BY SumStep
<1> QED BY <1>1, <1>2 DEF Total

Blank == /\ lots = <<>> /\ trades = <<>> /\ openLots = <<>> /\ fifo = <<>>
         /\ cash = StartingBalance /\ Quiets(todo)

\* An account without rows is in order.
LEMMA EmptyBooks == Blank => Ledger
<1> SUFFICES ASSUME Blank PROVE Ledger OBVIOUS
<1>0. lots = <<>> /\ trades = <<>> /\ openLots = <<>> /\ fifo = <<>> /\ cash = StartingBalance /\ Quiets(todo)
  BY DEF Blank
<1>1. DOMAIN lots = {} /\ DOMAIN trades = {} /\ DOMAIN openLots = {} /\ Proper(<<>>) BY <1>0, ProperEmpty
<1>2. RowsOK BY <1>0, <1>1 DEF RowsOK
<1>3. ViewsOK BY <1>0, <1>1 DEF ViewsOK
<1>4. /\ Proper(todo) /\ Rest(todo) /\ Loose(todo) = todo /\ ToExit(todo) = <<>>
      /\ todo # <<>> => Head(todo).do \notin Tight
  <2>1. Proper(todo) /\ Rest(todo) /\ Loose(todo) = todo /\ ToExit(todo) = <<>> BY <1>0, QuietsRest
  <2>2. todo # <<>> => Quiet(Head(todo)) BY <1>0, <2>1, ProperTail DEF Quiets
  <2> QED BY <2>1, <2>2 DEF Quiet
<1>5. StackOK
  <2>1. HeadOK BY <1>4 DEF HeadOK, Doing, Tight
  <2>2. LoopOK BY <1>4, ProperEmpty DEF LoopOK
  <2>3. FillOK BY <1>4 DEF FillOK, Doing, Tight
  <2> QED BY <1>4, <2>1, <2>2, <2>3 DEF StackOK
<1>6. FlowGap = 0 /\ BookGap = 0 /\ UnitGap = 0 BY <1>4 DEF Doing, Tight, FlowGap, BookGap, UnitGap
<1>7. Flows = 0 /\ Booked = 0 /\ Units = 0 /\ SumViews(LAMBDA v : EntryCost(lots[v.id].entryPrice, lots[v.id].qty)) = 0
  <2>1. 1..0 = {} OBVIOUS
  <2>2. [i \in DOMAIN trades |-> TradeFlow(trades[i])] \in [1..0 -> Int] BY <1>1, <2>1
  <2>3. [i \in DOMAIN lots |-> lots[i].pnl] \in [1..0 -> Int] BY <1>1, <2>1
  <2>4. [i \in DOMAIN openLots |-> lots[openLots[i].id].qty] \in [1..0 -> Int] BY <1>1, <2>1
  <2>5. [i \in DOMAIN openLots |-> EntryCost(lots[openLots[i].id].entryPrice, lots[openLots[i].id].qty)] \in [1..0 -> Int]
    BY <1>1, <2>1
  <2> QED BY <2>2, <2>3, <2>4, <2>5, TotalOfNone DEF Flows, Booked, Units, SumViews
<1>8. Cost(fifo) = 0 /\ Quantity(fifo) = 0 /\ fifo \in Seq(Slices)
  <2>1. 1..0 = {} /\ DOMAIN fifo = {} /\ Len(fifo) = 0 /\ fifo \in Seq(Slices) BY <1>0, ProperEmpty
  <2>2. [i \in DOMAIN fifo |-> fifo[i].price * fifo[i].qty] \in [1..0 -> Int] BY <2>1
  <2>3. Quantity(fifo) = 0 BY <2>1, SumStep DEF Quantity, HeldBefore
  <2> QED BY <2>1, <2>2, <2>3, TotalOfNone DEF Cost
<1>9. StartingBalance \in Int /\ UnitFee \in Int BY CostsAreNatural
<1>10. InventoryCost = 0
  <2>1. CASE NSE BY <1>8, <1>9, <2>1 DEF InventoryCost
  <2>2. CASE ~NSE BY <1>7, <2>2 DEF InventoryCost
  <2> QED BY <2>1, <2>2
<1>11. BooksOK BY <1>0, <1>1, <1>6, <1>7, <1>8, <1>9, <1>10 DEF BooksOK, Proper
<1> QED BY <1>2, <1>3, <1>5, <1>11 DEF Ledger

\* accounts.reset() leaves an account without rows.
LEMMA Wiped == ASSUME Ledger, Wipe PROVE Ledger'
<1>1. Doing("wipe") /\ "wipe" \notin Tight \cup {"exit"} BY DEF Wipe, Tight
<1>2. todo # <<>> /\ Head(todo).do \notin Tight BY <1>1, QuietHead DEF Ledger
<1>3. Then(<<>>) BY DEF Wipe
<1>4. Quiets(todo') BY <1>2, <1>3, QuietsNone, QuietsThen DEF Ledger
<1>5. lots' = <<>> /\ trades' = <<>> /\ openLots' = <<>> /\ fifo' = <<>> /\ cash' = StartingBalance BY DEF Wipe
<1>6. Blank' BY <1>4, <1>5 DEF Blank
<1>7. (Blank => Ledger)' BY EmptyBooks, PTL
<1> QED BY <1>6, <1>7

-----------------------------------------------------------------------------
(* A fill begins. *)

\* The numbers of the lots of a cycle have a greatest one.
LEMMA EntryNumberIsNatural ==
  ASSUME RowsOK, Shown, NEW d PROVE EntryNumber(d) \in Nat
<1>1. CASE LotsFor(d) = <<>> BY <1>1 DEF EntryNumber
<1>2. CASE LotsFor(d) # <<>>
  <2> DEFINE k == LotsFor(d)[1].id
             C == CycleLots(EntryCycle(d))
             T == {lots[i].num : i \in C}
  <2>1. k \in DOMAIN lots
    <3> DEFINE places == {i \in DOMAIN openLots : lots[openLots[i].id].dep = d}
               rest == Only(openLots, places)
    <3>1. rest = LotsFor(d) BY DEF LotsFor
    <3> HIDE DEF places
    <3>2. Proper(rest) /\ \A a \in DOMAIN rest : \E i \in DOMAIN openLots : rest[a] = openLots[i]
      BY OnlyKeeps DEF Shown
    <3> HIDE DEF rest
    <3>3. 1 \in DOMAIN rest BY <1>2, <3>1, <3>2, ProperTail
    <3>4. PICK i \in DOMAIN openLots : rest[1] = openLots[i] BY <3>2, <3>3
    <3>5. openLots[i].id \in DOMAIN lots BY DEF Shown
    <3> QED BY <3>1, <3>4, <3>5
  <2>2. k \in C BY <1>2, <2>1 DEF CycleLots, EntryCycle
  <2>3. C \subseteq DOMAIN lots /\ IsFiniteSet(C)
    <3>1. Len(lots) \in Nat /\ DOMAIN lots = 1..Len(lots) BY ProperDomain DEF RowsOK
    <3>2. IsFiniteSet(DOMAIN lots) BY <3>1, FS_Interval
    <3>3. C \subseteq DOMAIN lots BY DEF CycleLots
    <3> QED BY <3>2, <3>3, FS_Subset
  <2> HIDE DEF C, k
  <2>4. T \subseteq Nat /\ T # {} BY <2>2, <2>3 DEF RowsOK, RowOK
  <2>5. IsFiniteSet(T)
    <3> DEFINE f == [i \in C |-> lots[i].num]
    <3>1. f \in Surjection(C, T) BY DEF Surjection
    <3> HIDE DEF f, T
    <3> QED BY <2>3, <3>1, FS_Surjection
  <2>6. EntryNumber(d) = Max(T) BY <1>2 DEF EntryNumber, C
  <2> HIDE DEF T
  <2>7. T \in SUBSET Int BY <2>4
  <2>8. Max(T) \in T BY <2>4, <2>5, <2>7, MaxIsGreatest
  <2> QED BY <2>4, <2>6, <2>8
<1> QED BY <1>1, <1>2

\* Each lot that the policy admits has a quantity.
LEMMA QuantityIsPositive ==
  ASSUME NEW d \in Deployments, NEW n \in Nat, n < MaximumEntries(Config[d]), NEW ref
  PROVE  LotQuantity(d, n, ref) \in Nat \ {0}
<1> PICK cfg : cfg = Config[d] OBVIOUS
<1>1. /\ cfg.high \in Seq(Nat \ {0}) /\ cfg.low \in Seq(Nat \ {0}) /\ cfg.maxEntries \in Nat \ {0}
      /\ IF cfg.ladder THEN Len(cfg.low) = Len(cfg.high) ELSE cfg.maxEntries <= Len(cfg.low)
  BY ConfigsAreValid
<1>2. Len(cfg.low) \in Nat /\ Len(cfg.high) \in Nat BY <1>1
<1>5. \A k \in 1..Len(cfg.low) : cfg.low[k] \in Nat \ {0}
  <2> DEFINE S == Nat \ {0}
  <2>1. cfg.low \in Seq(S) BY <1>1
  <2> HIDE DEF S
  <2>2. \A k \in 1..Len(cfg.low) : cfg.low[k] \in S BY <2>1
  <2> QED BY <2>2 DEF S
<1>6. \A k \in 1..Len(cfg.high) : cfg.high[k] \in Nat \ {0}
  <2> DEFINE S == Nat \ {0}
  <2>1. cfg.high \in Seq(S) BY <1>1
  <2> HIDE DEF S
  <2>2. \A k \in 1..Len(cfg.high) : cfg.high[k] \in S BY <2>1
  <2> QED BY <2>2 DEF S
<1>3. CASE cfg.ladder
  <2>1. MaximumEntries(cfg) = Min({cfg.maxEntries, Len(cfg.high)}) BY <1>3 DEF MaximumEntries
  <2>2. MaximumEntries(cfg) \in Int /\ MaximumEntries(cfg) <= Len(cfg.high)
    <3> PICK a : a = cfg.maxEntries OBVIOUS
    <3> PICK b : b = Len(cfg.high) OBVIOUS
    <3>1. a \in Int /\ b \in Int BY <1>1, <1>2
    <3>2. Min({a, b}) = (IF a <= b THEN a ELSE b) BY <3>1, OfTwo
    <3>3. MaximumEntries(cfg) = Min({a, b}) BY <2>1
    <3> QED BY <3>1, <3>2, <3>3
  <2>3. Len(cfg.low) = Len(cfg.high) BY <1>1, <1>3
  <2>4. n + 1 \in 1..Len(cfg.high) /\ n + 1 \in 1..Len(cfg.low) BY <1>2, <2>2, <2>3
  <2>5. cfg.high[n + 1] \in Nat \ {0} /\ cfg.low[n + 1] \in Nat \ {0} BY <1>5, <1>6, <2>4
  <2>6. LotQuantity(d, n, ref) = cfg.high[n + 1] \/ LotQuantity(d, n, ref) = cfg.low[n + 1] BY DEF LotQuantity
  <2> QED BY <2>5, <2>6
<1>4. CASE ~cfg.ladder
  <2>1. n < cfg.maxEntries BY <1>4 DEF MaximumEntries
  <2>2. n + 1 \in 1..Len(cfg.low) BY <1>1, <1>2, <1>4, <2>1
  <2>3. cfg.low[n + 1] \in Nat \ {0} BY <1>5, <2>2
  <2>4. LotQuantity(d, n, ref) = cfg.low[n + 1] BY <1>4 DEF LotQuantity
  <2> QED BY <2>3, <2>4
<1> QED BY <1>3, <1>4

\* The row of an admitted order.
LEMMA NewLotIsFresh ==
  ASSUME RowsOK, Shown, NEW p, p.dep \in Deployments, NEW ref \in Nat \ {0}, NEW ts,
         ~Rejected(p, ref, ts)
  PROVE  Fresh(NewLot(p, ref, ts))
<1> DEFINE cfg == Config[p.dep]
           n == EntryNumber(p.dep)
           price == BuyPrice(ref)
           qty == LotQuantity(p.dep, n, ref)
           target == CeilDiv(price * (100 + cfg.targetPct), 100)
           stop == IF cfg.stopPct = 0 THEN 0 ELSE (price * (100 - cfg.stopPct)) \div 100
           row == NewLot(p, ref, ts)
<1>1. n \in Nat BY EntryNumberIsNatural
<1>2. n < MaximumEntries(cfg)
  <2>1. MaximumEntries(cfg) \in Int
    <3>1. cfg.maxEntries \in Int /\ Len(cfg.high) \in Int BY ConfigsAreValid
    <3>2. Min({cfg.maxEntries, Len(cfg.high)}) \in Int BY <3>1, OfTwo
    <3> QED BY <3>1, <3>2 DEF MaximumEntries
  <2>2. ~ (n >= MaximumEntries(cfg)) BY DEF Rejected
  <2> QED BY <1>1, <2>1, <2>2
<1>3. qty \in Nat \ {0} BY <1>1, <1>2, QuantityIsPositive
<1>4. price \in Nat \ {0} BY CostsAreNatural DEF BuyPrice
<1>5. cfg.targetPct \in Nat /\ cfg.stopPct \in Nat BY ConfigsAreValid
<1>6. \A a, b \in Int : a * b \in Int OBVIOUS
<1>7. target \in Int
  <2>1. price * (100 + cfg.targetPct) \in Int BY <1>4, <1>5, <1>6
  <2>2. 100 \in Nat \ {0} OBVIOUS
  <2> QED BY <2>1, <2>2, CeilDivIsInt
<1>8. stop \in Int
  <2>1. price * (100 - cfg.stopPct) \in Int BY <1>4, <1>5, <1>6
  <2> QED BY <2>1
<1>9. /\ row.dep = p.dep /\ row.num = n + 1 /\ row.entryPrice = price /\ row.qty = qty
      /\ row.stop = stop /\ row.pnl = 0 /\ row.status = "OPEN" /\ row.target = target /\ row.last = price
      /\ {"dep", "num", "entryPrice", "qty", "stop", "status", "pnl"} \subseteq DOMAIN row
  BY DEF NewLot
<1> HIDE DEF row, stop, target, qty, price, n, cfg
<1>10. Fresh(row) BY <1>1, <1>3, <1>4, <1>7, <1>8, <1>9 DEF Fresh, RowOK
<1> QED BY <1>10 DEF row

\* A pending entry is filled or refused: no money has moved yet.
LEMMA FillBegun == ASSUME Ledger, FillEntry PROVE Ledger'
<1> PICK x : x = Head(todo) OBVIOUS
<1> PICK lot : lot = NewLot(x.p, x.ref, x.ts) OBVIOUS
<1> PICK r : r = Tail(todo) OBVIOUS
<1>1. Doing("fill") /\ "fill" \notin Tight \cup {"exit"} BY DEF FillEntry, Tight
<1>2. todo # <<>> /\ Head(todo).do = "fill" /\ Head(todo).do \notin Tight /\ Quiet(x) /\ Quiets(r)
  BY <1>1, QuietHead DEF Ledger
<1>3. x.p.dep \in Deployments /\ x.ref \in Nat \ {0} BY <1>2 DEF Quiet
<1>4. UNCHANGED <<lots, openLots, fifo, trades, cash>> BY DEF FillEntry, memory
<1>5. \/ Then(<<>>)
      \/ ~Rejected(x.p, x.ref, x.ts) /\ Then(<<[do |-> "lot", lot |-> lot]>>)
  BY DEF FillEntry
<1>6. CASE Then(<<>>)
  <2>1. Quiets(todo') BY <1>2, <1>6, QuietsNone, QuietsThen DEF Ledger
  <2> QED BY <1>2, <1>4, <2>1, BooksUntouched
<1>7. CASE ~Rejected(x.p, x.ref, x.ts) /\ Then(<<[do |-> "lot", lot |-> lot]>>)
  <2> PICK y : y = [do |-> "lot", lot |-> lot] OBVIOUS
  <2>1. y.do = "lot" /\ y.do \in Tight /\ y.lot = lot BY DEF Tight
  <2>2. Fresh(lot) BY <1>3, <1>7, ViewsAreShown, NewLotIsFresh DEF Ledger
  <2>3. todo' = <<y>> \o r BY <1>7 DEF Then
  <2>4. Rest(r) /\ ToExit(r) = <<>> BY <1>2, QuietsRest
  <2>5. todo' # <<>> /\ Head(todo') = y BY <2>1, <2>3, <2>4, TightPush
  <2>6. HeadOK' BY <2>1, <2>2, <2>5 DEF HeadOK, Doing
  <2>7. \A a \in DOMAIN ToExit(r) :
            /\ Viewed(ToExit(r)[a].id)'
            /\ y.do \in {"close", "sell", "credit"} => ToExit(r)[a].id # y.id
    BY <2>4, ProperEmpty
  <2>8. StackOK' BY <1>2, <2>1, <2>3, <2>4, <2>6, <2>7, StackTight
  <2>9. ~Between(todo) BY <1>2, NothingTight
  <2>10. ~Between(todo') BY <2>1, <2>5 DEF Between
  <2>11. SameRows /\ SameViews BY <1>4, RowsUnchanged, ViewsUnchanged DEF Ledger
  <2>12. UNCHANGED <<fifo, trades, cash>> BY <1>4
  <2>13. RowsOK' /\ ViewsOK' /\ BooksOK' BY <2>9, <2>10, <2>11, <2>12, LedgerKept DEF Ledger
  <2> QED BY <2>8, <2>13 DEF Ledger
<1> QED BY <1>5, <1>6, <1>7

-----------------------------------------------------------------------------
(* An exit begins. *)

\* The loop goes on with the other lots.
LEMMA LoopRest ==
  ASSUME NEW x, ExitLoop(x), NEW r, Quiets(r)
  PROVE  LET s == Loop(x, Tail(x.left)) \o r
         IN  Rest(s) /\ ToExit(s) = Tail(x.left) /\ Proper(Loop(x, Tail(x.left)))
<1> PICK left : left = Tail(x.left) OBVIOUS
<1>1. /\ {"do", "left", "bar"} \subseteq DOMAIN x /\ x.do = "exit" /\ Priced(x.bar)
      /\ Proper(x.left) /\ x.left # <<>>
      /\ \A a, b \in DOMAIN x.left : x.left[a].id = x.left[b].id => a = b
  BY DEF ExitLoop
<1>2. Proper(left) /\ \A k \in DOMAIN left : k + 1 \in DOMAIN x.left /\ left[k] = x.left[k + 1]
  BY <1>1, ProperTail
<1>3. \A a, b \in DOMAIN left : left[a].id = left[b].id => a = b
  <2> TAKE a, b \in DOMAIN left
  <2> HAVE left[a].id = left[b].id
  <2>1. a + 1 = b + 1 BY <1>1, <1>2
  <2>2. a \in Nat /\ b \in Nat BY <1>2, ProperDomain
  <2> QED BY <2>1, <2>2
<1>4. CASE left = <<>>
  <2>1. Loop(x, left) = <<>> BY <1>4 DEF Loop
  <2>2. <<>> \o r = r BY PushNone DEF Quiets
  <2>3. Rest(r) /\ ToExit(r) = <<>> BY QuietsRest
  <2> QED BY <1>4, <2>1, <2>2, <2>3, ProperEmpty
<1>5. CASE left # <<>>
  <2> DEFINE y == [x EXCEPT !.left = left]
  <2>1. DOMAIN y = DOMAIN x /\ y.do = "exit" /\ y.bar = x.bar /\ y.left = left BY <1>1, LoopFrame
  <2>2. Loop(x, left) = <<y>> BY <1>5 DEF Loop
  <2> HIDE DEF y
  <2>3. ExitLoop(y) BY <1>1, <1>2, <1>3, <1>5, <2>1 DEF ExitLoop
  <2>4. Proper(<<y>>)
    <3>1. <<y>> \in Seq({y}) OBVIOUS
    <3> QED BY <3>1, ProperSeq
  <2>5. Rest(<<y>> \o r) /\ ToExit(<<y>> \o r) = y.left BY <2>3, ExitRest
  <2> QED BY <2>1, <2>2, <2>4, <2>5
<1> QED BY <1>4, <1>5

\* The first frame of an exit, above the loop over the other lots.
LEMMA LoopPushed ==
  ASSUME ExitLoop(Head(todo)), Quiets(Tail(todo)), NEW y, Then(<<y>> \o Others)
  PROVE  todo' = <<y>> \o (Others \o Tail(todo))
<1>1. Proper(Others) BY LoopRest DEF Others
<1>2. Proper(Tail(todo)) BY DEF Quiets
<1>3. todo' = WithLoop(y, Others, Tail(todo)) BY DEF Then, WithLoop
<1>4. todo' = OnLoop(y, Others, Tail(todo)) BY <1>1, <1>2, <1>3, FramePushed
<1> QED BY <1>4 DEF OnLoop

\* The row is marked with the price of the exit; its lot is in stock.
LEMMA CloseBegun ==
  ASSUME Ledger, todo = <<>> \/ Head(todo).do \notin Tight,
         NEW x, x.do = "close", x.raw \in Int, x.status # "OPEN", x.cost = AcquisitionCost(x.id),
         Viewed(x.id), ~NSE \/ CanConsume(fifo, lots[x.id].qty),
         NEW r, Rest(r), todo' = <<x>> \o r,
         \A a \in DOMAIN ToExit(r) : Viewed(ToExit(r)[a].id) /\ ToExit(r)[a].id # x.id,
         SameRows, UNCHANGED <<openLots, fifo, trades, cash>>
  PROVE  Ledger'
<1> PICK id : id = x.id OBVIOUS
<1> PICK cost : cost = AcquisitionCost(id) OBVIOUS
<1>1. SameViews /\ ~Between(todo) BY ViewsUnchanged, NothingTight DEF Ledger
<1>2. id \in DOMAIN lots
  <2>1. PICK i \in DOMAIN openLots : openLots[i].id = id BY DEF Viewed
  <2> QED BY <2>1 DEF Ledger, ViewsOK
<1>3. InStock(id) BY DEF InStock, CanConsume
<1>4. UNCHANGED <<fifo, trades>> OBVIOUS
<1>5. /\ AcquisitionCost(id)' = cost /\ InStock(id)'
      /\ \A j : Viewed(j)' <=> Viewed(j)
  BY <1>1, <1>2, <1>3, <1>4, SumsKept DEF Ledger
<1>6. x.do \in Tight BY DEF Tight
<1>7. todo' # <<>> /\ Head(todo') = x BY <1>6, TightPush
<1>8. HeadOK' BY <1>5, <1>7 DEF HeadOK, Doing
<1>9. \A a \in DOMAIN ToExit(r) :
         /\ Viewed(ToExit(r)[a].id)'
         /\ x.do \in {"close", "sell", "credit"} => ToExit(r)[a].id # x.id
  BY <1>5
<1>10. StackOK' BY <1>6, <1>8, <1>9, StackTight
<1>11. ~Between(todo') BY <1>7 DEF Between
<1>12. UNCHANGED <<fifo, trades, cash>> OBVIOUS
<1>13. RowsOK' /\ ViewsOK' /\ BooksOK' BY <1>1, <1>11, <1>12, LedgerKept DEF Ledger
<1> QED BY <1>10, <1>13 DEF Ledger

\* The price of an exit is a number.
LEMMA ExitPriceIsInt ==
  ASSUME Ledger, NEW id, Viewed(id), NEW bar, Priced(bar), NEW status, status = ExitStatus(id, bar),
         status # "OPEN"
  PROVE  ExitPrice(id, bar, status) \in Int
<1>1. PICK i \in DOMAIN openLots : openLots[i].id = id /\ ViewOf(id) = openLots[i] BY ViewOfIs
<1>2. ViewOf(id).target \in Int BY <1>1 DEF Ledger, ViewsOK
<1>3. lots[id].stop \in Int
  <2>1. id \in DOMAIN lots BY <1>1 DEF Ledger, ViewsOK
  <2> QED BY <2>1 DEF Ledger, RowsOK, RowOK
<1>4. bar.c \in Int BY DEF Priced
<1>5. status = "STOPPED" \/ status = "TARGET_HIT" \/ status = "EXPIRED" BY DEF ExitStatus
<1> QED BY <1>2, <1>3, <1>4, <1>5 DEF ExitPrice

\* The loop comes to its next lot.
LEMMA ExitBegun == ASSUME Ledger, Exit PROVE Ledger'
<1> PICK x : x = Head(todo) OBVIOUS
<1> PICK left : left = x.left OBVIOUS
<1> PICK id : id = Item.id OBVIOUS
<1> PICK status : status = ExitStatus(id, x.bar) OBVIOUS
<1> PICK t : t = Tail(todo) OBVIOUS
<1> PICK r : r = Loop(x, Tail(left)) \o t OBVIOUS
<1>1. todo # <<>> /\ x.do = "exit" /\ "exit" \notin Tight BY DEF Exit, Doing, Tight
<1>2. Loose(todo) = todo /\ ExitLoop(x) /\ Quiets(t) BY <1>1, HeadFrame DEF Ledger
<1>3. Rest(r) /\ ToExit(r) = Tail(left) /\ Proper(Others) BY <1>2, LoopRest DEF Others
<1>4. \A a \in DOMAIN left : Viewed(left[a].id)
  <2>1. ToExit(Loose(todo)) = left BY <1>1, <1>2 DEF ToExit
  <2> QED BY <2>1, ExitsViewed DEF Ledger
<1>5. /\ Proper(left) /\ left # <<>> /\ Priced(x.bar)
      /\ \A a, b \in DOMAIN left : left[a].id = left[b].id => a = b
  BY <1>2 DEF ExitLoop
<1>6. /\ 1 \in DOMAIN left /\ Head(left) = left[1]
      /\ \A k \in DOMAIN Tail(left) : k + 1 \in DOMAIN left /\ Tail(left)[k] = left[k + 1]
      /\ Proper(Tail(left))
  BY <1>5, ProperTail
<1>7. id = left[1].id /\ Viewed(id) BY <1>4, <1>6 DEF Item
<1>8. \A a \in DOMAIN Tail(left) : Viewed(Tail(left)[a].id) /\ Tail(left)[a].id # id
  <2> TAKE a \in DOMAIN Tail(left)
  <2>1. a + 1 \in DOMAIN left /\ Tail(left)[a] = left[a + 1] BY <1>6
  <2>2. a + 1 # 1
    <3>1. a \in 1..Len(Tail(left)) /\ Len(Tail(left)) \in Nat BY <1>6, ProperDomain
    <3> QED BY <3>1
  <2> QED BY <1>4, <1>5, <1>6, <1>7, <2>1, <2>2
<1>9. UNCHANGED <<openLots, fifo, trades, cash>> BY DEF Exit, memory
<1>10. CASE status = "OPEN"
  <2>1. Then(Others) /\ UNCHANGED lots BY <1>10 DEF Exit
  <2>2. todo' = r BY <2>1 DEF Then, Others
  <2>3. SameRows /\ SameViews BY <1>9, <2>1, RowsUnchanged, ViewsUnchanged DEF Ledger
  <2>4. UNCHANGED <<fifo, trades, cash>> BY <1>9
  <2> QED BY <1>1, <1>3, <1>8, <2>2, <2>3, <2>4, LedgerInRest
<1>11. CASE status # "OPEN"
  <2> PICK raw : raw = ExitPrice(id, x.bar, status) OBVIOUS
  <2>1. BeginClose(id, status, raw, 2 * x.bar.ts) BY <1>11 DEF Exit
  <2>2. raw \in Int BY <1>5, <1>7, <1>11, ExitPriceIsInt
  <2>3. CASE NSE /\ ~CanConsume(fifo, lots[id].qty)
    <3>1. Raise /\ UNCHANGED lots BY <2>1, <2>3 DEF BeginClose
    <3>2. Quiets(todo') BY <3>1, QuietsNone DEF Raise
    <3>3. UNCHANGED <<lots, openLots, fifo, trades, cash>> BY <1>9, <3>1
    <3> QED BY <1>1, <3>2, <3>3, BooksUntouched
  <2>4. CASE ~ (NSE /\ ~CanConsume(fifo, lots[id].qty))
    <3> PICK cost : cost = AcquisitionCost(id) OBVIOUS
    <3> DEFINE close == [do |-> "close", id |-> id, status |-> status, raw |-> raw,
                         at |-> 2 * x.bar.ts, cost |-> cost]
    <3>0. MarkRow(id, cost, ViewOf(id).target, 0, raw) /\ Then(<<close>> \o Others)
      BY <2>1, <2>4 DEF BeginClose
    <3>2. /\ close.do = "close" /\ close.id = id /\ close.raw = raw /\ close.status = status
          /\ close.cost = cost
      OBVIOUS
    <3> HIDE DEF close
    <3> PICK y : y = close OBVIOUS
    <3>1. MarkRow(id, cost, ViewOf(id).target, 0, raw) /\ Then(<<y>> \o Others) BY <3>0
    <3>3. SameRows BY <3>1, MarkKeepsRows DEF Ledger
    <3>4. todo' = <<y>> \o r
      <4>1. Then(<<y>> \o Others) BY <3>1
      <4>2. ExitLoop(Head(todo)) /\ Quiets(Tail(todo)) BY <1>2
      <4>3. todo' = <<y>> \o (Others \o Tail(todo)) BY <4>1, <4>2, LoopPushed
      <4> QED BY <4>3 DEF Others
    <3>5. ~NSE \/ CanConsume(fifo, lots[id].qty) BY <2>4
    <3>6. \A a \in DOMAIN ToExit(r) : Viewed(ToExit(r)[a].id) /\ ToExit(r)[a].id # id BY <1>3, <1>8
    <3>7. /\ y.do = "close" /\ y.raw \in Int /\ y.status # "OPEN" /\ y.cost = AcquisitionCost(y.id)
          /\ Viewed(y.id) /\ (~NSE \/ CanConsume(fifo, lots[y.id].qty))
      BY <1>7, <1>11, <2>2, <3>2, <3>5
    <3>8. \A a \in DOMAIN ToExit(r) : Viewed(ToExit(r)[a].id) /\ ToExit(r)[a].id # y.id BY <3>2, <3>6
    <3>9. todo = <<>> \/ Head(todo).do \notin Tight BY <1>1
    <3>10. Rest(r) BY <1>3
    <3> QED BY <1>9, <3>3, <3>4, <3>7, <3>8, <3>9, <3>10, CloseBegun
  <2> QED BY <2>3, <2>4
<1> QED BY <1>10, <1>11

-----------------------------------------------------------------------------
(* The handlers start; the market, the feeds and the instructions. *)

\* No instruction waits.
LEMMA EntriesNone == Entries(<<>>)
  BY ProperEmpty DEF Entries

\* An instruction joins those that wait.
LEMMA EntriesAppend == ASSUME NEW s, Entries(s), NEW p, p.dep \in Deployments PROVE Entries(Append(s, p))
<1>1. /\ Proper(Append(s, p)) /\ DOMAIN Append(s, p) = 1..(Len(s) + 1)
      /\ \A i \in DOMAIN s : Append(s, p)[i] = s[i]
      /\ Append(s, p)[Len(s) + 1] = p
  BY ProperAppend DEF Entries
<1>2. Len(s) \in Nat /\ DOMAIN s = 1..Len(s) BY ProperDomain DEF Entries
<1>3. \A a \in DOMAIN Append(s, p) : a \in DOMAIN s \/ a = Len(s) + 1 BY <1>1, <1>2
<1> QED BY <1>1, <1>3 DEF Entries

\* Some of the instructions stay.
LEMMA EntriesKept == ASSUME NEW s, Entries(s), NEW places PROVE Entries(Only(s, places))
<1> PICK rest : rest = Only(s, places) OBVIOUS
<1>1. Proper(rest) /\ \A a \in DOMAIN rest : \E i \in DOMAIN s : rest[a] = s[i]
  BY OnlyKeeps DEF Entries
<1>2. \A a \in DOMAIN rest : rest[a].dep \in Deployments BY <1>1 DEF Entries
<1> QED BY <1>1, <1>2 DEF Entries

\* No step of a handler touches the tape or the feeds.
LEMMA HandlerFeeds ==
  ASSUME Feeds, HandlerStep, Doing("persist") \/ Doing("consider") => Quiet(Head(todo)) PROVE Feeds'
<1>1. UNCHANGED <<tape, cursor>>
  BY DEF HandlerStep, Persist, Consider, DeletePending, FillEntry, InsertLot, InsertBuy, Debit, Remark, Mark,
         Sweep, Exit, Close, InsertSell, Credit, Settle, Ladder, Wipe, world
<1>2. MarketOK' BY <1>1 DEF Feeds, MarketOK, FeedLen, Span, Clock
<1>3. Entries(queue') /\ Entries(hold') /\ Entries(pending')
  <2>1. CASE Persist
    <3>1. Doing("persist") /\ Head(todo).do = "persist" BY <2>1 DEF Persist, Doing
    <3>2. Head(todo).p.dep \in Deployments BY <3>1 DEF Quiet
    <3>3. /\ UNCHANGED hold /\ (queue' = queue \/ queue' = Append(queue, Head(todo).p))
          /\ pending' = pending \/ pending' = Append(pending, Head(todo).p)
      BY <2>1 DEF Persist
    <3> QED BY <3>2, <3>3, EntriesAppend DEF Feeds
  <2>2. CASE Consider
    <3>1. Doing("consider") /\ Head(todo).do = "consider" BY <2>2 DEF Consider, Doing
    <3>2. Entries(Head(todo).left) /\ Head(todo).left # <<>> BY <3>1 DEF Quiet
    <3>3. Item.dep \in Deployments BY <3>2, EntriesTail DEF Item
    <3>4. UNCHANGED <<queue, pending>> /\ (hold' = hold \/ hold' = Append(hold, Item))
      BY <2>2 DEF Consider, memory, db
    <3> QED BY <3>3, <3>4, EntriesAppend DEF Feeds
  <2>3. CASE Sweep
    <3>1. queue' = hold /\ hold' = <<>> /\ UNCHANGED pending BY <2>3 DEF Sweep, KeepDeferred, db
    <3> QED BY <3>1, EntriesNone DEF Feeds
  <2>4. CASE Wipe
    <3>1. queue' = <<>> /\ pending' = <<>> /\ UNCHANGED hold BY <2>4 DEF Wipe
    <3> QED BY <3>1, EntriesNone DEF Feeds
  <2>5. CASE DeletePending
    <3>1. /\ pending' = Only(pending, {i \in DOMAIN pending : pending[i] # Head(todo).p})
          /\ UNCHANGED <<queue, hold>>
      BY <2>5 DEF DeletePending, memory
    <3> QED BY <3>1, EntriesKept DEF Feeds
  <2>6. CASE \/ FillEntry \/ InsertLot \/ InsertBuy \/ Debit \/ Remark \/ Mark
             \/ Exit \/ Close \/ InsertSell \/ Credit \/ Settle \/ Ladder
    <3>1. UNCHANGED <<queue, hold, pending>>
      BY <2>6 DEF FillEntry, InsertLot, InsertBuy, Debit, Remark, Mark, Exit, Close,
                  InsertSell, Credit, Settle, Ladder, memory, db
    <3> QED BY <3>1 DEF Feeds
  <2> QED BY <2>1, <2>2, <2>3, <2>4, <2>5, <2>6 DEF HandlerStep
<1> QED BY <1>2, <1>3 DEF Feeds

\* Bars of a feed have a length.
LEMMA FeedLengths ==
  /\ \A d \in Deployments : d # Market /\ Span(d) \in Nat \ {0} /\ FeedLen(d) = Span(d)
  /\ FeedLen(Market) = 1
  /\ \A ch \in Channels \cup Deployments : FeedLen(ch) \in Nat \ {0}
<1>1. \A d \in Deployments : Span(d) \in Nat \ {0} BY ConfigsAreValid DEF Span
<1>2. \A d \in Deployments : d # Market BY MarketIsNoDeployment
<1>3. \A ch \in Channels \cup Deployments : ch = Market \/ ch \in Deployments BY DEF Channels
<1> QED BY <1>1, <1>2, <1>3 DEF FeedLen

\* Rounding down to whole bars.
LEMMA WholeBars ==
  ASSUME NEW a \in Int, NEW b \in Nat \ {0}
  PROVE  (a \div b) * b \in Int /\ (a \div b) * b <= a
<1>1. a \div b \in Int OBVIOUS
<1>2. \A i, j \in Int : i * j \in Int OBVIOUS
<1>3. (a \div b) * b <= a OBVIOUS
<1> QED BY <1>1, <1>2, <1>3

\* A candle of a tape has prices.
LEMMA CandlePrices ==
  ASSUME MarketOK, NEW i \in 1..Clock
  PROVE  tape[i].o \in Nat \ {0} /\ tape[i].c \in Nat \ {0}
<1> PICK k : k = tape[i] OBVIOUS
<1>1. k \in Candles BY DEF MarketOK, Clock
<1>2. {k.o, k.h, k.l, k.c} \subseteq Int /\ k.l > 0 /\ k.l <= Min({k.o, k.c}) BY <1>1, CandlesAreCandles
<1> PICK o : o = k.o OBVIOUS
<1> PICK c : c = k.c OBVIOUS
<1>3. o \in Int /\ c \in Int /\ k.l \in Int BY <1>2
<1>4. Min({o, c}) = (IF o <= c THEN o ELSE c) BY <1>3, OfTwo
<1>5. k.l > 0 /\ k.l <= Min({o, c}) BY <1>2
<1>6. o > 0 /\ c > 0 BY <1>3, <1>4, <1>5
<1> QED BY <1>3, <1>6

\* A complete bar of a feed has prices.
LEMMA BarPriced ==
  ASSUME MarketOK, NEW ts \in Nat, NEW len \in Nat \ {0}, ts + len <= Clock
  PROVE  Priced(BarAt(ts, len))
<1>1. Clock \in Nat BY DEF MarketOK, Clock
<1>2. ts + 1 \in 1..Clock /\ ts + len \in 1..Clock BY <1>1
<1>3. tape[ts + 1].o \in Nat \ {0} /\ tape[ts + len].c \in Nat \ {0} BY <1>2, CandlePrices
<1>4. BarAt(ts, len).o = tape[ts + 1].o /\ BarAt(ts, len).c = tape[ts + len].c BY DEF BarAt
<1> QED BY <1>3, <1>4 DEF Priced

\* The candles that a handler hears are complete ones.
LEMMA NextBar ==
  ASSUME MarketOK, NEW ch \in Channels, NextTs(ch) + FeedLen(ch) <= Clock
  PROVE  NextTs(ch) \in Nat /\ Priced(BarAt(NextTs(ch), FeedLen(ch)))
<1>1. FeedLen(ch) \in Nat \ {0} BY FeedLengths
<1>2. cursor[ch] \in Int /\ cursor[ch] + FeedLen(ch) >= 0 BY DEF MarketOK
<1>3. NextTs(ch) \in Nat
  <2>1. CASE ch = Market
    <3> DEFINE a == cursor[Market] + 1
               b == ((Clock - 1) \div DayBars) * DayBars
    <3>1. a \in Nat BY <1>2, <2>1, FeedLengths
    <3>2. Clock - 1 \in Int /\ DayBars \in Nat \ {0} BY DaysHaveBars DEF MarketOK, Clock
    <3>3. b \in Int BY <3>2, WholeBars
    <3>4. NextTs(ch) = Max({a, b}) BY <2>1 DEF NextTs
    <3> HIDE DEF a, b
    <3>5. Max({a, b}) = (IF a <= b THEN b ELSE a)
      <4>1. a \in Int BY <3>1
      <4> QED BY <3>3, <4>1, OfTwo
    <3> QED BY <3>1, <3>3, <3>4, <3>5
  <2>2. CASE ch # Market
    <3>1. NextTs(ch) = cursor[ch] + FeedLen(ch) BY <2>2 DEF NextTs, FeedLen
    <3> QED BY <1>1, <1>2, <3>1
  <2> QED BY <2>1, <2>2
<1>4. Priced(BarAt(NextTs(ch), FeedLen(ch))) BY <1>1, <1>3, BarPriced
<1> QED BY <1>3, <1>4

\* A signal is published for the latest complete bar.
LEMMA SignalPrice ==
  ASSUME MarketOK, NEW d \in Deployments, LatestBar(d) >= 0
  PROVE  LatestBar(d) \in Int /\ tape[LatestBar(d) + Span(d)].c \in Nat \ {0}
<1> DEFINE n == Span(d)
           m == (Clock \div n) * n
<1>1. n \in Nat \ {0} /\ Clock \in Nat BY FeedLengths DEF MarketOK, Clock
<1>2. m \in Int /\ m <= Clock BY <1>1, WholeBars
<1>3. LatestBar(d) = m - n BY DEF LatestBar
<1> HIDE DEF n, m
<1>4. LatestBar(d) + n = m /\ m \in 1..Clock BY <1>1, <1>2, <1>3
<1>5. tape[m].c \in Nat \ {0} BY <1>4, CandlePrices
<1> QED BY <1>1, <1>2, <1>3, <1>4, <1>5 DEF n

\* The price a signal carries is a number.
LEMMA LatestIsInt == ASSUME MarketOK, NEW d \in Deployments PROVE LatestBar(d) \in Int
<1>1. Span(d) \in Nat \ {0} /\ Clock \in Nat BY FeedLengths DEF MarketOK, Clock
<1>2. (Clock \div Span(d)) * Span(d) \in Int BY <1>1, WholeBars
<1> QED BY <1>1, <1>2 DEF LatestBar

\* on_signal() writes down that the bar was evaluated.
LEMMA SignalFeeds == ASSUME Feeds, NEW d \in Deployments, OnSignal(d) PROVE Feeds'
<1> PICK ts : ts = LatestBar(d) OBVIOUS
<1>1. /\ ts >= 0 /\ cursor' = (IF d \in Daily THEN [cursor EXCEPT ![d] = ts] ELSE cursor)
      /\ UNCHANGED <<queue, hold, pending, tape>>
  BY DEF OnSignal, db, memory
<1>2. ts \in Int BY <1>1, LatestIsInt DEF Feeds
<1>3. cursor' \in [Channels \cup Deployments -> Int] BY <1>1, <1>2 DEF Feeds, MarketOK
<1>4. \A ch \in Channels \cup Deployments : cursor'[ch] + FeedLen(ch) >= 0
  <2> TAKE ch \in Channels \cup Deployments
  <2>1. FeedLen(ch) \in Nat \ {0} /\ FeedLen(d) \in Nat \ {0} BY FeedLengths
  <2>2. cursor[ch] \in Int /\ cursor[ch] + FeedLen(ch) >= 0 BY DEF Feeds, MarketOK
  <2>3. cursor'[ch] = cursor[ch] \/ (ch = d /\ cursor'[ch] = ts)
    <3>1. cursor' = cursor \/ cursor' = [cursor EXCEPT ![d] = ts] BY <1>1
    <3>2. cursor \in [Channels \cup Deployments -> Int] BY DEF Feeds, MarketOK
    <3> QED BY <3>1, <3>2
  <2> QED BY <1>1, <1>2, <2>1, <2>2, <2>3
<1>5. MarketOK' BY <1>1, <1>3, <1>4 DEF Feeds, MarketOK, FeedLen, Span
<1> QED BY <1>1, <1>5 DEF Feeds

\* on_signal() queues an instruction, the books stay.
LEMMA SignalHeard == ASSUME Feeds, Ledger, NEW d \in Deployments, OnSignal(d) PROVE Feeds' /\ Ledger'
<1> DEFINE ts == LatestBar(d)
           p == [sig |-> <<d, ts>>, dep |-> d, ts |-> ts, price |-> tape[ts + Span(d)].c,
                 created |-> Now, cycle |-> 0, num |-> 0]
           persist == [do |-> "persist", p |-> p]
           fill == [do |-> "fill", p |-> p, ref |-> p.price, ts |-> ts]
<1>1. /\ todo = <<>> /\ ts >= 0
      /\ todo' = <<>> \/ todo' = <<persist>> \/ todo' = <<fill>>
      /\ UNCHANGED <<lots, openLots, fifo, trades, cash>>
  BY DEF OnSignal, Idle, db, memory
<1>2. p.price \in Nat \ {0} BY <1>1, SignalPrice DEF Feeds
<1>3. p.dep = d OBVIOUS
<1>4. /\ persist.do = "persist" /\ persist.p = p /\ "do" \in DOMAIN persist
      /\ fill.do = "fill" /\ fill.p = p /\ fill.ref = p.price /\ "do" \in DOMAIN fill
  OBVIOUS
<1> HIDE DEF persist, fill, p, ts
<1>5. Quiet(persist) /\ Quiet(fill) BY <1>2, <1>3, <1>4 DEF Quiet, Tight
<1>6. Quiets(todo') BY <1>1, <1>5, QuietsNone, QuietsOne
<1>7. Ledger' BY <1>1, <1>6, BooksUntouched
<1> QED BY <1>7, SignalFeeds

\* on_candle() advances its feed; the instructions go into its frames.
LEMMA CandleFeeds == ASSUME Feeds, NEW ch \in Channels, OnCandle(ch) PROVE Feeds'
<1> PICK ts : ts = NextTs(ch) OBVIOUS
<1>1. /\ ts + FeedLen(ch) <= Clock /\ cursor' = [cursor EXCEPT ![ch] = ts]
      /\ queue' = <<>> /\ hold' = <<>> /\ UNCHANGED <<pending, tape>>
  BY DEF OnCandle, db
<1>2. ts \in Nat BY <1>1, NextBar DEF Feeds
<1>3. cursor' \in [Channels \cup Deployments -> Int] BY <1>1, <1>2 DEF Feeds, MarketOK
<1>4. \A c \in Channels \cup Deployments : cursor'[c] + FeedLen(c) >= 0
  <2> TAKE c \in Channels \cup Deployments
  <2>1. FeedLen(c) \in Nat \ {0} BY FeedLengths
  <2>2. cursor[c] \in Int /\ cursor[c] + FeedLen(c) >= 0 BY DEF Feeds, MarketOK
  <2>3. cursor'[c] = cursor[c] \/ cursor'[c] = ts BY <1>1 DEF Feeds, MarketOK
  <2> QED BY <1>2, <2>1, <2>2, <2>3
<1>5. MarketOK' BY <1>1, <1>3, <1>4 DEF Feeds, MarketOK, FeedLen, Span
<1> QED BY <1>1, <1>5, EntriesNone DEF Feeds

\* on_candle() starts the frames of its bar, the books stay.
LEMMA CandleHeard == ASSUME Feeds, Ledger, NEW ch \in Channels, OnCandle(ch) PROVE Feeds' /\ Ledger'
<1> PICK ts : ts = NextTs(ch) OBVIOUS
<1> PICK bar : bar = BarAt(ts, FeedLen(ch)) OBVIOUS
<1> DEFINE consider == [do |-> "consider", left |-> <<>>, bar |-> bar, ch |-> ch]
           sweep == [do |-> "sweep", bar |-> bar, ch |-> ch]
<1>1. /\ todo = <<>> /\ ts + FeedLen(ch) <= Clock
      /\ todo' = Loop(consider, queue) \o <<sweep>>
      /\ UNCHANGED <<lots, openLots, fifo, trades, cash>>
  BY DEF OnCandle, Idle, db
<1>2. Priced(bar) BY <1>1, NextBar DEF Feeds
<1>3. queue # <<>> => Quiet([consider EXCEPT !.left = queue])
  <2> DEFINE y == [consider EXCEPT !.left = queue]
  <2>1. y.do = "consider" /\ y.left = queue /\ y.bar = bar /\ DOMAIN y = {"do", "left", "bar", "ch"} OBVIOUS
  <2> HIDE DEF y
  <2>2. queue # <<>> => Quiet(y) BY <1>2, <2>1 DEF Quiet, Tight, Feeds
  <2> QED BY <2>2 DEF y
<1>4. Quiet(sweep)
  <2>1. sweep.do = "sweep" /\ sweep.bar = bar /\ "do" \in DOMAIN sweep OBVIOUS
  <2> HIDE DEF sweep
  <2> QED BY <1>2, <2>1 DEF Quiet, Tight
<1> HIDE DEF consider, sweep
<1>5. Quiets(todo') BY <1>1, <1>3, <1>4, QuietsLoop, QuietsOne, QuietsConcat
<1>6. Ledger' BY <1>1, <1>5, BooksUntouched
<1> QED BY <1>6, CandleFeeds

\* Two frames, one above the other.
LEMMA FrameAbove == ASSUME NEW x, NEW y PROVE <<x, y>> = <<x>> \o <<y>>
<1> DEFINE S == {x, y}
           s == <<x>> \o <<y>>
           t == <<x, y>>
<1>1. <<x>> \in Seq(S) /\ <<y>> \in Seq(S) /\ t \in Seq(S) OBVIOUS
<1>2. /\ Len(<<x>>) = 1 /\ <<x>>[1] = x /\ Len(<<y>>) = 1 /\ <<y>>[1] = y
      /\ Len(t) = 2 /\ t[1] = x /\ t[2] = y
  OBVIOUS
<1> HIDE DEF S, t
<1>3. s \in Seq(S) /\ Len(s) = 2 BY <1>1, <1>2
<1>4. \A i \in 1..2 : s[i] = IF i <= 1 THEN <<x>>[i] ELSE <<y>>[i - 1] BY <1>1, <1>2
<1>5. s[1] = x /\ s[2] = y BY <1>2, <1>4
<1> HIDE DEF s
<1>6. \A i \in 1..2 : s[i] = t[i] BY <1>2, <1>5
<1>7. s = t BY <1>1, <1>2, <1>3, <1>6
<1> QED BY <1>7 DEF s, t

\* A lot closed from the user interface begins its exit.
LEMMA ClosedByHand ==
  ASSUME Ledger, NEW id \in Ids(openLots), CloseLotManually(id) PROVE Ledger'
<1> PICK price : price = ViewOf(id).last OBVIOUS
<1> PICK cost : cost = AcquisitionCost(id) OBVIOUS
<1> DEFINE x == [do |-> "close", id |-> id, status |-> "CLOSED", raw |-> price, at |-> Now, cost |-> cost]
           y == [do |-> "remark", close |-> price]
<1>1. /\ todo = <<>> /\ UNCHANGED <<openLots, fifo, trades, cash>>
      /\ IF NSE /\ ~CanConsume(fifo, lots[id].qty) THEN UNCHANGED <<lots, todo>>
         ELSE MarkRow(id, cost, ViewOf(id).target, 0, price) /\ todo' = <<x, y>>
  BY DEF CloseLotManually, Idle, memory
<1>2. Viewed(id) BY DEF Ids, ToSet, Viewed
<1>3. price \in Int
  <2>1. PICK i \in DOMAIN openLots : openLots[i].id = id /\ ViewOf(id) = openLots[i] BY <1>2, ViewOfIs
  <2> QED BY <2>1 DEF Ledger, ViewsOK
<1>4. /\ x.do = "close" /\ x.id = id /\ x.raw = price /\ x.status = "CLOSED" /\ x.cost = cost
      /\ y.do = "remark" /\ y.close = price /\ DOMAIN y = {"do", "close"}
  OBVIOUS
<1> HIDE DEF x, y
<1>5. CASE NSE /\ ~CanConsume(fifo, lots[id].qty)
  <2>1. UNCHANGED <<lots, openLots, fifo, trades, cash>> /\ todo' = <<>> BY <1>1, <1>5
  <2>2. Quiets(todo') BY <2>1, QuietsNone
  <2> QED BY <1>1, <2>1, <2>2, BooksUntouched
<1>6. CASE ~ (NSE /\ ~CanConsume(fifo, lots[id].qty))
  <2> PICK r : r = <<y>> OBVIOUS
  <2>1. MarkRow(id, cost, ViewOf(id).target, 0, price) /\ todo' = <<x, y>> BY <1>1, <1>6
  <2>2. SameRows BY <2>1, MarkKeepsRows DEF Ledger
  <2>3. Quiet(y) BY <1>3, <1>4 DEF Quiet, Tight
  <2>4. Rest(r) /\ ToExit(r) = <<>> BY <2>3, QuietsOne, QuietsRest
  <2>5. todo' = <<x>> \o r BY <2>1, FrameAbove
  <2>6. /\ x.do = "close" /\ x.raw \in Int /\ x.status # "OPEN" /\ x.cost = AcquisitionCost(x.id)
        /\ Viewed(x.id) /\ (~NSE \/ CanConsume(fifo, lots[x.id].qty))
    BY <1>2, <1>3, <1>4, <1>6
  <2>7. \A a \in DOMAIN ToExit(r) : Viewed(ToExit(r)[a].id) /\ ToExit(r)[a].id # x.id BY <2>4, ProperEmpty
  <2> PICK z : z = x OBVIOUS
  <2>8. /\ z.do = "close" /\ z.raw \in Int /\ z.status # "OPEN" /\ z.cost = AcquisitionCost(z.id)
        /\ Viewed(z.id) /\ (~NSE \/ CanConsume(fifo, lots[z.id].qty))
        /\ todo' = <<z>> \o r
        /\ \A a \in DOMAIN ToExit(r) : Viewed(ToExit(r)[a].id) /\ ToExit(r)[a].id # z.id
    BY <2>5, <2>6, <2>7
  <2>9. UNCHANGED <<openLots, fifo, trades, cash>> /\ todo = <<>> BY <1>1
  <2> QED BY <2>2, <2>4, <2>8, <2>9, CloseBegun
<1> QED BY <1>5, <1>6

\* The market prints a candle.
LEMMA BarFeeds == ASSUME Feeds, PrintBar PROVE Feeds'
<1>1. UNCHANGED <<queue, hold, pending, cursor>> /\ \E k \in Candles : tape' = Append(tape, k)
  BY DEF PrintBar, db, memory, handler
<1>2. tape' \in Seq(Candles) BY <1>1 DEF Feeds, MarketOK
<1>3. MarketOK' BY <1>1, <1>2 DEF Feeds, MarketOK, FeedLen, Span
<1> QED BY <1>1, <1>3 DEF Feeds

\* The market prints a candle, the books stay.
LEMMA BarPrinted == ASSUME Feeds, Ledger, PrintBar PROVE Feeds' /\ Ledger'
<1>1. todo = <<>> /\ todo' = <<>> /\ UNCHANGED <<lots, openLots, fifo, trades, cash>>
  BY DEF PrintBar, Idle, db, memory, handler
<1>2. Quiets(todo') BY <1>1, QuietsNone
<1>3. Ledger' BY <1>1, <1>2, BooksUntouched
<1> QED BY <1>3, BarFeeds

\* A deployment's worker is built again.
LEMMA WorkerFeeds == ASSUME Feeds, NEW d \in Deployments, ReconcileWorkers(d) PROVE Feeds'
<1>1. UNCHANGED <<queue, hold, pending, tape>> /\ cursor' = Resumed(d)
  BY DEF ReconcileWorkers, db, memory, handler
<1> PICK latest : latest = LatestBar(d) OBVIOUS
<1> PICK at : at = cursor[d] OBVIOUS
<1>2. latest \in Int /\ at \in Int /\ cursor \in [Channels \cup Deployments -> Int]
  BY LatestIsInt DEF Feeds, MarketOK
<1>3. Max({at, latest}) = (IF at <= latest THEN latest ELSE at) BY <1>2, OfTwo
<1>4. \A ch \in Channels \cup Deployments :
         \/ cursor'[ch] = cursor[ch]
         \/ ch = Market /\ cursor'[ch] = -1
         \/ ch = d /\ cursor'[ch] = Max({at, latest})
  BY <1>1, <1>2 DEF Resumed
<1>5. \A ch \in Channels \cup Deployments : cursor'[ch] \in Int /\ cursor'[ch] + FeedLen(ch) >= 0
  <2> TAKE ch \in Channels \cup Deployments
  <2>1. FeedLen(ch) \in Nat \ {0} /\ (ch = Market => FeedLen(ch) = 1) BY FeedLengths
  <2>2. cursor[ch] \in Int /\ cursor[ch] + FeedLen(ch) >= 0 BY DEF Feeds, MarketOK
  <2>3. CASE cursor'[ch] = cursor[ch] BY <2>2, <2>3
  <2>4. CASE ch = Market /\ cursor'[ch] = -1 BY <2>1, <2>4
  <2>5. CASE ch = d /\ cursor'[ch] = Max({at, latest}) BY <1>2, <1>3, <2>1, <2>2, <2>5
  <2> QED BY <1>4, <2>3, <2>4, <2>5
<1>6. DOMAIN cursor' = Channels \cup Deployments /\ cursor' = [ch \in DOMAIN cursor' |-> cursor'[ch]]
  BY <1>1, <1>2 DEF Resumed
<1>7. cursor' \in [Channels \cup Deployments -> Int] BY <1>5, <1>6
<1>8. MarketOK' BY <1>1, <1>5, <1>7 DEF Feeds, MarketOK, FeedLen, Span
<1> QED BY <1>1, <1>8 DEF Feeds

\* A deployment whose worker is built again, the books stay.
LEMMA WorkerRebuilt ==
  ASSUME Feeds, Ledger, NEW d \in Deployments, ReconcileWorkers(d) PROVE Feeds' /\ Ledger'
<1>1. todo = <<>> /\ todo' = <<>> /\ UNCHANGED <<lots, openLots, fifo, trades, cash>>
  BY DEF ReconcileWorkers, Idle, db, memory, handler
<1>2. Quiets(todo') BY <1>1, QuietsNone
<1>3. Ledger' BY <1>1, <1>2, BooksUntouched
<1> QED BY <1>3, WorkerFeeds

\* reset() clears the instructions first.
LEMMA ResetFeeds == ASSUME Feeds, ResetAccount PROVE Feeds'
<1>1. UNCHANGED <<queue, hold, tape, cursor>> /\ pending' = <<>> BY DEF ResetAccount, memory, world
<1>2. MarketOK' BY <1>1 DEF Feeds, MarketOK, FeedLen, Span
<1> QED BY <1>1, <1>2, EntriesNone DEF Feeds

\* A reset asked for between two handlers.
LEMMA AccountReset == ASSUME Feeds, Ledger, ResetAccount PROVE Feeds' /\ Ledger'
<1> DEFINE x == [do |-> "wipe"]
<1>1. todo = <<>> /\ todo' = <<x>> /\ UNCHANGED <<lots, openLots, fifo, trades, cash>>
  BY DEF ResetAccount, Idle, memory
<1>2. Quiet(x) BY DEF Quiet, Tight
<1>3. Quiets(<<x>>) BY <1>2, QuietsOne
<1>4. Ledger' BY <1>1, <1>3, BooksUntouched
<1> QED BY <1>4, ResetFeeds

-----------------------------------------------------------------------------
(* The invariant. *)

\* The feeds before the first candle.
LEMMA FeedsInitially == Init => Feeds
<1> SUFFICES ASSUME Init PROVE Feeds OBVIOUS
<1>1. Entries(queue) /\ Entries(hold) /\ Entries(pending) BY EntriesNone DEF Init
<1>2. tape \in Seq(Candles) BY DEF Init
<1>3. cursor = [ch \in Channels \cup Deployments |-> IF ch = Market THEN -1 ELSE - Span(ch)] BY DEF Init
<1>4. \A ch \in Channels \cup Deployments : cursor[ch] \in Int /\ cursor[ch] + FeedLen(ch) >= 0
  <2> TAKE ch \in Channels \cup Deployments
  <2>1. CASE ch = Market BY <1>3, <2>1, FeedLengths
  <2>2. CASE ch # Market
    <3>1. ch \in Deployments BY <2>2 DEF Channels
    <3>2. Span(ch) \in Nat \ {0} /\ FeedLen(ch) = Span(ch) BY <3>1, FeedLengths
    <3>3. cursor[ch] = - Span(ch) BY <1>3, <2>2
    <3> QED BY <3>2, <3>3
  <2> QED BY <2>1, <2>2
<1>5. cursor \in [Channels \cup Deployments -> Int]
  <2> PICK C : C = Channels \cup Deployments OBVIOUS
  <2>1. DOMAIN cursor = C /\ cursor = [ch \in C |-> cursor[ch]] BY <1>3
  <2> QED BY <1>4, <2>1
<1>6. MarketOK BY <1>2, <1>4, <1>5 DEF MarketOK
<1> QED BY <1>1, <1>6 DEF Feeds

\* The first state is in order.
LEMMA LedgerInitially == Init => LedgerInv
<1> SUFFICES ASSUME Init PROVE LedgerInv OBVIOUS
<1>1. Blank BY QuietsNone DEF Init, Blank
<1>2. Ledger BY <1>1, EmptyBooks
<1>3. torn = 0 /\ stale = FALSE BY DEF Init
<1> QED BY <1>2, <1>3, FeedsInitially DEF LedgerInv

\* A process that begins with what the tables give.
Rebuilds == OwnerEnds /\ Remember(StoredMemory)

\* That is what a restart does, and a container that takes over with a memory that is not older.
LEMMA OwnersRebuild ==
  /\ Crash => Rebuilds /\ UNCHANGED stale
  /\ TakeOver /\ ~stale' => Rebuilds /\ ~stale
<1>1. Crash => Rebuilds /\ UNCHANGED stale BY DEF Crash, Rebuilds
<1>2. ASSUME TakeOver, ~stale' PROVE Rebuilds /\ ~stale
  <2>1. PICK image \in standby : /\ OwnerEnds /\ Remember(image)
                                 /\ stale' = (stale \/ image # StoredMemory)
    BY <1>2 DEF TakeOver
  <2>2. image = StoredMemory /\ ~stale BY <1>2, <2>1
  <2> QED BY <2>1, <2>2 DEF Rebuilds
<1> QED BY <1>1, <1>2

\* What the start of a container that waits leaves alone.
LEMMA OwnerGoesOn ==
  ASSUME StartStandby \/ UNCHANGED vars
  PROVE  UNCHANGED <<db, memory, handler, tape, cursor, torn, stale>>
BY DEF StartStandby, vars, world, counters

\* The workers of a process that starts: their feeds resume at the latest bars.
LEMMA MarketRebuilt == ASSUME Feeds, OwnerEnds PROVE MarketOK'
<1>1. /\ UNCHANGED tape
      /\ cursor' = [ch \in DOMAIN cursor |->
                       IF ch = Market THEN -1 ELSE Max({cursor[ch], LatestBar(ch)})]
  BY DEF OwnerEnds
<1>2. \A ch \in Channels \cup Deployments : cursor'[ch] \in Int /\ cursor'[ch] + FeedLen(ch) >= 0
  <2> TAKE ch \in Channels \cup Deployments
  <2>1. FeedLen(ch) \in Nat \ {0} /\ (ch = Market => FeedLen(ch) = 1) BY FeedLengths
  <2>2. cursor[ch] \in Int /\ cursor[ch] + FeedLen(ch) >= 0 BY DEF Feeds, MarketOK
  <2>3. CASE ch = Market BY <1>1, <2>1, <2>3 DEF Feeds, MarketOK
  <2>4. CASE ch # Market
    <3> PICK latest : latest = LatestBar(ch) OBVIOUS
    <3> PICK at : at = cursor[ch] OBVIOUS
    <3>1. latest \in Int BY <2>4, LatestIsInt DEF Feeds, Channels
    <3>2. Max({at, latest}) = (IF at <= latest THEN latest ELSE at) BY <2>2, <3>1, OfTwo
    <3>3. cursor'[ch] = Max({at, latest}) BY <1>1, <2>4 DEF Feeds, MarketOK
    <3> QED BY <2>1, <2>2, <3>1, <3>2, <3>3
  <2> QED BY <2>3, <2>4
<1>3. DOMAIN cursor' = Channels \cup Deployments /\ cursor' = [ch \in DOMAIN cursor' |-> cursor'[ch]]
  BY <1>1 DEF Feeds, MarketOK
<1>4. cursor' \in [Channels \cup Deployments -> Int] BY <1>2, <1>3
<1> QED BY <1>1, <1>2, <1>4 DEF Feeds, MarketOK, FeedLen, Span

\* A process that dies between two handlers is built again as it was, when its memory is.
LEMMA ProcessRebuilt ==
  ASSUME Feeds, Ledger, Rebuilds, Calm, MemoryIsRebuildable PROVE Feeds' /\ Ledger'
<1>1. /\ todo = <<>> /\ todo' = <<>> /\ hold' = <<>> /\ queue' = StoredPending
      /\ openLots' = StoredLots /\ fifo' = Replay
      /\ UNCHANGED <<lots, trades, cash, pending>>
  BY DEF Rebuilds, Remember, StoredMemory, OwnerEnds, Calm, Idle, db
<1>2. /\ openLots = StoredLots /\ fifo = Replay
      /\ ToSet(queue) = ToSet(StoredPending)
  BY DEF MemoryIsRebuildable
<1>3. Ledger' BY <1>1, <1>2, QuietsNone, BooksUntouched
<1>4. Entries(queue')
  <2> PICK rows : rows = StoredPending OBVIOUS
  <2>1. Len(pending) \in Nat /\ DOMAIN pending = 1..Len(pending) BY ProperDomain DEF Feeds, Entries
  <2>2. rows = [k \in DOMAIN pending |-> rows[k]] BY DEF StoredPending
  <2>3. rows \in Seq(ToSet(rows))
    <3> PICK n : n = Len(pending) OBVIOUS
    <3>1. n \in Nat /\ DOMAIN rows = 1..n /\ rows = [k \in 1..n |-> rows[k]] BY <2>1, <2>2
    <3>2. \A k \in 1..n : rows[k] \in ToSet(rows) BY <3>1 DEF ToSet
    <3>3. rows \in [1..n -> ToSet(rows)] BY <3>1, <3>2
    <3> QED BY <3>3, SeqDef
  <2>4. ToSet(rows) = ToSet(queue) BY <1>2
  <2>5. \A a \in DOMAIN rows : rows[a] \in ToSet(queue) BY <2>4 DEF ToSet
  <2>6. \A a \in DOMAIN rows : rows[a].dep \in Deployments BY <2>5 DEF ToSet, Feeds, Entries
  <2> QED BY <1>1, <2>3, <2>6 DEF Entries, Proper
<1>5. MarketOK' BY MarketRebuilt DEF Rebuilds
<1> QED BY <1>1, <1>3, <1>4, <1>5, EntriesNone DEF Feeds

\* What a step of a handler keeps.
LEMMA HandlerLedger == ASSUME Ledger, HandlerStep PROVE Ledger'
<1>1. CASE Persist \/ Consider \/ DeletePending BY <1>1, Persisted, Considered, PendingDeleted
<1>2. CASE FillEntry \/ InsertLot \/ InsertBuy \/ Debit BY <1>2, FillBegun, LotInserted, LotBought, LotDebited
<1>3. CASE Remark \/ Mark BY <1>3, Remarked, Marked
<1>4. CASE Sweep \/ Exit \/ Close \/ InsertSell \/ Credit BY <1>4, Swept, ExitBegun, LotClosed, LotSold, LotCredited
<1>5. CASE Settle \/ Ladder \/ Wipe BY <1>5, Settled, LadderSeen, Wiped
<1> QED BY <1>1, <1>2, <1>3, <1>4, <1>5 DEF HandlerStep

\* A step that changes nothing keeps the books.
LEMMA LedgerStutters == ASSUME Feeds, Ledger, StartStandby \/ UNCHANGED vars PROVE Feeds' /\ Ledger'
<1>1. UNCHANGED <<lots, trades, cash, openLots, queue, fifo, todo, hold, pending, tape, cursor>>
  BY OwnerGoesOn DEF db, memory, handler
<1>2. Feeds' BY <1>1 DEF Feeds, MarketOK, FeedLen, Span
<1>3. RowsOK' BY <1>1 DEF Ledger, RowsOK
<1>4. ViewsOK' BY <1>1 DEF Ledger, ViewsOK, Left, Doing
<1>5. StackOK'
  <2>1. HeadOK'
    BY <1>1 DEF Ledger, StackOK, HeadOK, Doing, Viewed, InStock, AcquisitionCost, AcquisitionCostOfLot
  <2>2. LoopOK' BY <1>1 DEF Ledger, StackOK, LoopOK, Doing, Viewed
  <2>3. FillOK' BY <1>1 DEF Ledger, StackOK, FillOK, Doing
  <2> QED BY <1>1, <2>1, <2>2, <2>3 DEF Ledger, StackOK
<1>6. BooksOK'
  <2>1. Flows' = Flows BY <1>1 DEF Flows, TradeFlow, EntryCost, ExitProceeds
  <2>2. Booked' = Booked /\ Units' = Units BY <1>1 DEF Booked, Units
  <2>3. InventoryCost' = InventoryCost BY <1>1 DEF InventoryCost, SumViews
  <2>4. FlowGap' = FlowGap /\ BookGap' = BookGap /\ UnitGap' = UnitGap
    BY <1>1 DEF FlowGap, BookGap, UnitGap, Doing
  <2> QED BY <1>1, <2>1, <2>2, <2>3, <2>4 DEF Ledger, BooksOK
<1> QED BY <1>2, <1>3, <1>4, <1>5, <1>6 DEF Ledger

\* One step, of the process or of what happens to it.
LEMMA LedgerStep == LedgerInv /\ [Next]_vars /\ [Crash \/ TakeOver => MemoryIsRebuildable]_vars => LedgerInv'
<1> SUFFICES ASSUME LedgerInv, [Next]_vars, [Crash \/ TakeOver => MemoryIsRebuildable]_vars PROVE LedgerInv'
  OBVIOUS
<1>1. torn \in Nat /\ stale \in BOOLEAN BY DEF LedgerInv
<1>2. ASSUME torn = 0, ~stale PROVE Feeds /\ Ledger BY <1>2 DEF LedgerInv
<1>3. CASE HandlerStep
  <2>1. UNCHANGED <<torn, stale>>
    BY <1>3 DEF HandlerStep, Persist, Consider, DeletePending, FillEntry, InsertLot, InsertBuy, Debit, Remark,
                Mark, Sweep, Exit, Close, InsertSell, Credit, Settle, Ladder, Wipe, world, counters
  <2>2. ASSUME torn = 0, ~stale PROVE Feeds' /\ Ledger'
    <3>1. Feeds /\ Ledger /\ StackOK BY <1>2, <2>2 DEF Ledger
    <3>2. Doing("persist") \/ Doing("consider") => Quiet(Head(todo)) BY <3>1, QuietHead DEF Tight
    <3> QED BY <1>3, <3>1, <3>2, HandlerFeeds, HandlerLedger
  <2> QED BY <1>1, <2>1, <2>2 DEF LedgerInv
<1>4. ASSUME NEW d \in Deployments, OnSignal(d) \/ ReconcileWorkers(d) PROVE LedgerInv'
  <2>1. UNCHANGED <<torn, stale>> BY <1>4 DEF OnSignal, ReconcileWorkers, world, counters
  <2>2. ASSUME torn = 0, ~stale PROVE Feeds' /\ Ledger' BY <1>2, <1>4, <2>2, SignalHeard, WorkerRebuilt
  <2> QED BY <1>1, <2>1, <2>2 DEF LedgerInv
<1>5. ASSUME NEW ch \in Channels, OnCandle(ch) PROVE LedgerInv'
  <2>1. UNCHANGED <<torn, stale>> BY <1>5 DEF OnCandle, counters
  <2>2. ASSUME torn = 0, ~stale PROVE Feeds' /\ Ledger' BY <1>2, <1>5, <2>2, CandleHeard
  <2> QED BY <1>1, <2>1, <2>2 DEF LedgerInv
<1>6. ASSUME NEW id \in Ids(openLots), CloseLotManually(id) PROVE LedgerInv'
  <2>1. UNCHANGED <<torn, stale, tape, cursor, queue, hold, pending>> BY <1>6 DEF CloseLotManually, memory, world
  <2>2. ASSUME torn = 0, ~stale PROVE Feeds' /\ Ledger'
    <3>1. Ledger' BY <1>2, <1>6, <2>2, ClosedByHand
    <3>2. Feeds' BY <1>2, <2>1, <2>2 DEF Feeds, MarketOK, FeedLen, Span
    <3> QED BY <3>1, <3>2
  <2> QED BY <1>1, <2>1, <2>2 DEF LedgerInv
<1>7. CASE ResetAccount \/ PrintBar
  <2>1. UNCHANGED <<torn, stale>> BY <1>7 DEF ResetAccount, PrintBar, world, counters
  <2>2. ASSUME torn = 0, ~stale PROVE Feeds' /\ Ledger' BY <1>2, <1>7, <2>2, AccountReset, BarPrinted
  <2> QED BY <1>1, <2>1, <2>2 DEF LedgerInv
<1>8. CASE DatabaseError
  <2>1. torn' = torn + 1 /\ UNCHANGED stale BY <1>8 DEF DatabaseError, world
  <2>2. torn' \in Nat /\ torn' # 0 BY <1>1, <2>1
  <2> QED BY <1>1, <2>1, <2>2 DEF LedgerInv
<1>9. CASE StartStandby \/ UNCHANGED vars
  <2>1. UNCHANGED <<torn, stale>> BY <1>9, OwnerGoesOn
  <2>2. ASSUME torn = 0, ~stale PROVE Feeds' /\ Ledger' BY <1>2, <1>9, <2>2, LedgerStutters
  <2> QED BY <1>1, <2>1, <2>2 DEF LedgerInv
<1>10. CASE Crash \/ TakeOver
  <2>1. torn' = (IF Idle THEN torn ELSE torn + 1) /\ stale' \in BOOLEAN
    BY <1>1, <1>10 DEF Crash, TakeOver, OwnerEnds
  <2>2. torn' \in Nat BY <1>1, <2>1
  <2>3. ASSUME torn' = 0, ~stale' PROVE Feeds' /\ Ledger'
    <3>1. Rebuilds /\ Idle /\ torn = 0 /\ ~stale BY <1>1, <1>10, <2>1, <2>3, OwnersRebuild
    <3>2. CASE MemoryIsRebuildable BY <1>2, <3>1, <3>2, ProcessRebuilt DEF Calm
    <3>3. CASE UNCHANGED vars BY <1>2, <3>1, <3>3, LedgerStutters
    <3> QED BY <1>10, <3>2, <3>3
  <2> QED BY <2>1, <2>2, <2>3 DEF LedgerInv
<1> QED BY <1>3, <1>4, <1>5, <1>6, <1>7, <1>8, <1>9, <1>10 DEF Next

\* At rest nothing is behind.
LEMMA LedgerAtRest == LedgerInv => LedgerConserved
<1> SUFFICES ASSUME LedgerInv, Calm
             PROVE cash = StartingBalance + Flows /\ cash + InventoryCost = StartingBalance + Booked
                   /\ InventoryCoversOpenLots
  BY DEF LedgerConserved, Flows, Booked
<1>1. Ledger /\ todo = <<>> BY DEF LedgerInv, Calm, Idle
<1>2. FlowGap = 0 /\ BookGap = 0 /\ UnitGap = 0 BY <1>1 DEF Doing, FlowGap, BookGap, UnitGap
<1>3. /\ cash \in Int /\ Flows \in Int /\ StartingBalance \in Int /\ Booked \in Int /\ Units \in Int
  BY <1>1, LedgerNumbers DEF Ledger
<1>4. /\ cash = StartingBalance + Flows + FlowGap /\ cash + InventoryCost = StartingBalance + Booked + BookGap
      /\ NSE => Quantity(fifo) = Units + UnitGap
  BY <1>1 DEF Ledger, BooksOK
<1>5. cash = StartingBalance + Flows BY <1>2, <1>3, <1>4
<1>6. cash + InventoryCost = StartingBalance + Booked BY <1>2, <1>3, <1>4
<1>7. InventoryCoversOpenLots
  <2>1. NSE => Quantity(fifo) = Units
    <3> SUFFICES ASSUME NSE PROVE Quantity(fifo) = Units OBVIOUS
    <3>1. Quantity(fifo) = Units + 0 BY <1>2, <1>4
    <3> QED BY <1>3, <3>1
  <2> QED BY <2>1 DEF InventoryCoversOpenLots, SumViews, Units
<1> QED BY <1>5, <1>6, <1>7

\* The books are in order between any two transactions, as long as a restart or a take-over
\* gives the broker the memory that was in use: what was bought and sold, what the account holds and what the rows say
\* agree up to the one transaction that the running handler has still to make.
THEOREM LedgerInvariant == Spec /\ [][Crash \/ TakeOver => MemoryIsRebuildable]_vars => []LedgerInv
  BY LedgerInitially, LedgerStep, PTL DEF Spec

\* Money and units are conserved under the same condition, for every configuration, tape, fee
\* and starting balance.
THEOREM LedgerIsConserved == Spec /\ [][Crash \/ TakeOver => MemoryIsRebuildable]_vars => []LedgerConserved
  BY LedgerInvariant, LedgerAtRest, PTL

-----------------------------------------------------------------------------
(* The cycles of a deployment. *)

\* The frames of a fill.
Fills == {"lot", "buy", "debit"}

\* Each row has its cycle: one deployment, each number once, none above the
\* policy's maximum and none without those before it.
CyclesOK ==
    /\ \A i \in DOMAIN lots :
          /\ "cycle" \in DOMAIN lots[i] /\ lots[i].cycle \in Nat \ {0}
          /\ lots[i].num <= MaximumEntries(Config[lots[i].dep])
          /\ \A n \in 1..lots[i].num : \E j \in CycleLots(lots[i].cycle) : lots[j].num = n
    /\ \A i, j \in DOMAIN lots : lots[i].cycle = lots[j].cycle =>
          lots[i].dep = lots[j].dep /\ (lots[i].num = lots[j].num => i = j)

\* The open lots of the deployment of a lot are of its cycle.
Joins(row) == \A i \in DOMAIN openLots :
    lots[openLots[i].id].dep = row.dep => lots[openLots[i].id].cycle = row.cycle
ViewsShare == \A i \in DOMAIN openLots : Joins(lots[openLots[i].id])

\* The row that a fill is about to insert is the next one of its cycle.
NextOfCycle(row) ==
    /\ row.cycle = EntryCycle(row.dep) /\ row.num = EntryNumber(row.dep) + 1
    /\ row.num <= MaximumEntries(Config[row.dep])
    /\ "cycle" \in DOMAIN row

FillNumbered ==
    /\ Doing("lot") => NextOfCycle(Head(todo).lot)
    /\ Doing("buy") \/ Doing("debit") => Joins(lots[Head(todo).id])

Cycles == CyclesOK /\ ViewsShare /\ FillNumbered

CycleInv == LedgerInv /\ (torn = 0 /\ ~stale => Cycles)

-----------------------------------------------------------------------------
(* Frames of no fill. *)

Unfilled(frames) ==
    /\ Proper(frames)
    /\ \A k \in DOMAIN frames : "do" \in DOMAIN frames[k] /\ frames[k].do \notin Fills

Filling(stack) == stack # <<>> /\ Head(stack).do \in Fills

\* Frames of no fill can be put together.
LEMMA UnfilledConcat == ASSUME NEW f, NEW g, Unfilled(f), Unfilled(g) PROVE Unfilled(f \o g)
<1>1. Proper(f) /\ Proper(g) BY DEF Unfilled
<1>2. Proper(f \o g) BY <1>1, ProperConcat
<1>3. ASSUME NEW k \in DOMAIN (f \o g)
      PROVE "do" \in DOMAIN (f \o g)[k] /\ (f \o g)[k].do \notin Fills
  <2>1. CASE k \in DOMAIN f /\ (f \o g)[k] = f[k] BY <2>1 DEF Unfilled
  <2>2. CASE k - Len(f) \in DOMAIN g /\ (f \o g)[k] = g[k - Len(f)] BY <2>2 DEF Unfilled
  <2> QED BY <1>1, <2>1, <2>2, ProperConcat
<1> QED BY <1>2, <1>3 DEF Unfilled

\* No frame.
LEMMA UnfilledNone == Unfilled(<<>>)
  BY ProperEmpty DEF Unfilled

\* One frame.
LEMMA UnfilledOne == ASSUME NEW x, "do" \in DOMAIN x, x.do \notin Fills PROVE Unfilled(<<x>>)
<1>1. <<x>> \in Seq({x}) /\ DOMAIN <<x>> = {1} /\ <<x>>[1] = x OBVIOUS
<1>2. Proper(<<x>>) BY <1>1, ProperSeq
<1> QED BY <1>1, <1>2 DEF Unfilled

\* Two frames.
LEMMA UnfilledTwo == ASSUME NEW x, NEW y, "do" \in DOMAIN x, x.do \notin Fills,
                            "do" \in DOMAIN y, y.do \notin Fills
                     PROVE Unfilled(<<x, y>>)
<1>1. <<x, y>> \in Seq({x, y}) /\ DOMAIN <<x, y>> = {1, 2}
      /\ <<x, y>>[1] = x /\ <<x, y>>[2] = y OBVIOUS
<1>2. Proper(<<x, y>>) BY <1>1, ProperSeq
<1> QED BY <1>1, <1>2 DEF Unfilled

\* The frame of a loop, if anything is left to do.
LEMMA UnfilledLoop == ASSUME NEW x, NEW items, "do" \in DOMAIN x, x.do \notin Fills
                      PROVE Unfilled(Loop(x, items))
<1> DEFINE y == [x EXCEPT !.left = items]
<1>1. "do" \in DOMAIN y /\ y.do = x.do OBVIOUS
<1> HIDE DEF y
<1>2. Unfilled(<<y>>) BY <1>1, UnfilledOne
<1>3. Loop(x, items) = <<>> \/ Loop(x, items) = <<y>> BY DEF Loop, y
<1> QED BY <1>2, <1>3, UnfilledNone

\* The frame that runs, when it is none of a fill: what is below is of none.
LEMMA UnfilledTail == ASSUME StackOK, todo # <<>>
                      PROVE Unfilled(Tail(todo))
<1>1. Rest(Tail(todo))
  <2>1. Quiets(Tail(todo)) => Rest(Tail(todo)) BY QuietsRest
  <2> QED BY <2>1, HeadFrame
<1> PICK t : t = Tail(todo) OBVIOUS
<1>2. Proper(t) /\ \A k \in DOMAIN t : Quiet(t[k]) \/ ExitLoop(t[k]) BY <1>1 DEF Rest
<1>3. \A k \in DOMAIN t : "do" \in DOMAIN t[k] /\ t[k].do \notin Fills
  BY <1>2 DEF Quiet, ExitLoop, Fills, Tight
<1> QED BY <1>2, <1>3 DEF Unfilled

\* A stack of no fill does not fill.
LEMMA UnfilledStack == ASSUME NEW s, Unfilled(s) PROVE ~Filling(s)
  BY ProperTail DEF Unfilled, Filling

\* After a step that puts frames of no fill on what is below.
LEMMA UnfilledThen == ASSUME StackOK, todo # <<>>, NEW f, Unfilled(f), Then(f) PROVE ~Filling(todo')
<1>1. todo' = f \o Tail(todo) BY DEF Then
<1>2. Unfilled(f \o Tail(todo)) BY UnfilledTail, UnfilledConcat
<1> QED BY <1>1, <1>2, UnfilledStack

\* The other items of a loop of no fill.
LEMMA UnfilledOthers == ASSUME "do" \in DOMAIN Head(todo), Head(todo).do \notin Fills
                        PROVE Unfilled(Others)
  BY UnfilledLoop DEF Others

\* The marks and what follows them, or the exception.
LEMMA UnfilledMarks ==
  ASSUME StackOK, todo # <<>>, NEW ids, NEW close, NEW frames, Unfilled(frames),
         MarkThen(ids, close, frames)
  PROVE  ~Filling(todo')
<1>1. CASE Raise BY <1>1 DEF Raise, Filling
<1>2. CASE Then(Loop([do |-> "mark", left |-> <<>>, close |-> close], InOrder(ids)) \o frames)
  <2> DEFINE x == [do |-> "mark", left |-> <<>>, close |-> close]
             items == InOrder(ids)
  <2>1. "do" \in DOMAIN x /\ x.do \notin Fills BY DEF Fills
  <2> HIDE DEF x, items
  <2>2. Unfilled(Loop(x, items) \o frames) BY <2>1, UnfilledLoop, UnfilledConcat
  <2> QED BY <1>2, <2>2, UnfilledThen DEF x, items
<1> QED BY <1>1, <1>2 DEF MarkThen

-----------------------------------------------------------------------------
(* What a step keeps of the cycles. *)

SameCycle(row, old) ==
    /\ "cycle" \in DOMAIN row
    /\ row.dep = old.dep /\ row.num = old.num /\ row.cycle = old.cycle

SameCycles ==
    /\ DOMAIN lots' = DOMAIN lots
    /\ \A i \in DOMAIN lots : SameCycle(lots'[i], lots[i])

\* No view of another lot.
SomeViews ==
    \A i \in DOMAIN openLots' : \E j \in DOMAIN openLots : openLots'[i].id = openLots[j].id

\* Rows of the same cycles, views of the same lots: the rows stay in order.
LEMMA CyclesKeep ==
  ASSUME ViewsOK, Cycles, SameCycles, SomeViews
  PROVE  CyclesOK' /\ ViewsShare'
<1>1. /\ DOMAIN lots' = DOMAIN lots
      /\ \A i \in DOMAIN lots : /\ "cycle" \in DOMAIN lots'[i]
                                /\ lots'[i].dep = lots[i].dep /\ lots'[i].num = lots[i].num
                                /\ lots'[i].cycle = lots[i].cycle
  BY DEF SameCycles, SameCycle
<1>2. CyclesOK'
  <2>2. \A c : \A j \in CycleLots(c) : j \in DOMAIN lots BY DEF CycleLots
  <2>3. \A i \in DOMAIN lots' :
          /\ "cycle" \in DOMAIN lots'[i] /\ lots'[i].cycle \in Nat \ {0}
          /\ lots'[i].num <= MaximumEntries(Config[lots'[i].dep])
    BY <1>1 DEF Cycles, CyclesOK
  <2>4. ASSUME NEW i \in DOMAIN lots', NEW n \in 1..lots'[i].num
        PROVE \E j \in DOMAIN lots' : lots'[j].cycle = lots'[i].cycle /\ lots'[j].num = n
    <3>1. PICK j \in CycleLots(lots[i].cycle) : lots[j].num = n
      <4>1. i \in DOMAIN lots /\ n \in 1..lots[i].num BY <1>1, <2>4
      <4> QED BY <4>1 DEF Cycles, CyclesOK
    <3>2. j \in DOMAIN lots BY <2>2, <3>1
    <3>3. lots[j].cycle = lots[i].cycle BY <3>1 DEF CycleLots
    <3> QED BY <1>1, <2>4, <3>1, <3>2, <3>3
  <2>5. \A i, j \in DOMAIN lots' : lots'[i].cycle = lots'[j].cycle =>
          lots'[i].dep = lots'[j].dep /\ (lots'[i].num = lots'[j].num => i = j)
    BY <1>1 DEF Cycles, CyclesOK
  <2> QED BY <2>3, <2>4, <2>5 DEF CyclesOK, CycleLots
<1>3. ViewsShare'
  <2> SUFFICES ASSUME NEW a \in DOMAIN openLots', NEW b \in DOMAIN openLots',
                      lots'[openLots'[b].id].dep = lots'[openLots'[a].id].dep
               PROVE  lots'[openLots'[b].id].cycle = lots'[openLots'[a].id].cycle
    BY DEF ViewsShare, Joins
  <2>1. PICK i \in DOMAIN openLots : openLots'[a].id = openLots[i].id BY DEF SomeViews
  <2>2. PICK j \in DOMAIN openLots : openLots'[b].id = openLots[j].id BY DEF SomeViews
  <2>3. openLots[i].id \in DOMAIN lots /\ openLots[j].id \in DOMAIN lots BY DEF ViewsOK
  <2>4. lots[openLots[j].id].dep = lots[openLots[i].id].dep BY <1>1, <2>1, <2>2, <2>3
  <2>5. lots[openLots[j].id].cycle = lots[openLots[i].id].cycle BY <2>4 DEF Cycles, ViewsShare, Joins
  <2> QED BY <1>1, <2>1, <2>2, <2>3, <2>5
<1> QED BY <1>2, <1>3

\* Without a fill, the cycles stay.
LEMMA CyclesKept ==
  ASSUME ViewsOK, Cycles, SameCycles, SomeViews, ~Filling(todo')
  PROVE  Cycles'
<1>1. FillNumbered' BY DEF FillNumbered, Filling, Doing, Fills
<1> QED BY <1>1, CyclesKeep DEF Cycles

\* Rows that stay.
LEMMA CyclesUnchanged == ASSUME Cycles, UNCHANGED lots PROVE SameCycles
  BY DEF Cycles, CyclesOK, SameCycles, SameCycle

\* Views that stay.
LEMMA SomeUnchanged == ASSUME UNCHANGED openLots PROVE SomeViews
  BY DEF SomeViews

\* Nothing is written to the rows and no view comes or goes.
LEMMA CyclesUntouched ==
  ASSUME ViewsOK, Cycles, UNCHANGED <<lots, openLots>>, ~Filling(todo') PROVE Cycles'
<1>1. UNCHANGED lots /\ UNCHANGED openLots OBVIOUS
<1>2. SameCycles BY <1>1, CyclesUnchanged
<1>3. SomeViews BY <1>1, SomeUnchanged
<1> QED BY <1>2, <1>3, CyclesKept

\* A row is written with the cycle it had.
LEMMA CycleWritten ==
  ASSUME Cycles, NEW n, NEW row, n \in DOMAIN lots => SameCycle(row, lots[n]),
         lots' = [lots EXCEPT ![n] = row]
  PROVE  SameCycles
<1>1. DOMAIN lots' = DOMAIN lots OBVIOUS
<1>2. \A i \in DOMAIN lots : lots'[i] = IF i = n THEN row ELSE lots[i] OBVIOUS
<1>3. \A i \in DOMAIN lots : SameCycle(lots[i], lots[i]) BY DEF Cycles, CyclesOK, SameCycle
<1> QED BY <1>1, <1>2, <1>3 DEF SameCycles

\* lots.mark()
LEMMA MarkKeepsCycles ==
  ASSUME RowsOK, Cycles, NEW id, NEW cost, NEW target, NEW unreal, NEW last,
         MarkRow(id, cost, target, unreal, last)
  PROVE  SameCycles
<1>1. CASE lots[id].status # "OPEN" BY <1>1, CyclesUnchanged DEF MarkRow
<1>2. CASE lots[id].status = "OPEN"
  <2> DEFINE row == [lots[id] EXCEPT !.cost = cost, !.target = target,
                                     !.unreal = unreal, !.last = last]
  <2>1. lots' = [lots EXCEPT ![id] = row] BY <1>2 DEF MarkRow
  <2>2. id \in DOMAIN lots => SameCycle(row, lots[id])
    <3> SUFFICES ASSUME id \in DOMAIN lots PROVE SameCycle(row, lots[id]) OBVIOUS
    <3>1. {"dep", "num", "cycle"} \subseteq DOMAIN lots[id] BY DEF RowsOK, RowOK, Cycles, CyclesOK
    <3> PICK old : old = lots[id] OBVIOUS
    <3>2. row = [old EXCEPT !.cost = cost, !.target = target, !.unreal = unreal, !.last = last] OBVIOUS
    <3>3. SameCycle([old EXCEPT !.cost = cost, !.target = target, !.unreal = unreal, !.last = last], old)
      BY <3>1 DEF SameCycle
    <3> QED BY <3>2, <3>3
  <2> HIDE DEF row
  <2> QED BY <2>1, <2>2, CycleWritten
<1> QED BY <1>1, <1>2

-----------------------------------------------------------------------------
(* The steps that number no lot. *)

\* A frame that runs knows its name.
LEMMA QuietName ==
  ASSUME StackOK, NEW step, Doing(step), step \notin Tight \cup {"exit"}
  PROVE  todo # <<>> /\ "do" \in DOMAIN Head(todo) /\ Head(todo).do = step /\ Head(todo).do \notin Fills
<1>1. todo # <<>> /\ Head(todo).do = step /\ Quiet(Head(todo)) BY QuietHead
<1> QED BY <1>1 DEF Quiet, Fills, Tight

\* Instructions, marks and ladders.
LEMMA CyclesInHandler ==
  ASSUME Ledger, Cycles, Persist \/ Consider \/ DeletePending \/ Remark \/ Sweep \/ Settle \/ Ladder
  PROVE  Cycles'
<1>1. ViewsOK /\ StackOK BY DEF Ledger
<1>2. UNCHANGED <<lots, openLots>>
  BY DEF Persist, Consider, DeletePending, Remark, Sweep, Settle, Ladder, db, memory
<1>3. CASE Persist
  <2>1. Doing("persist") /\ "persist" \notin Tight \cup {"exit"} /\ Then(<<>>) BY <1>3 DEF Persist, Tight
  <2>2. ~Filling(todo') BY <1>1, <2>1, QuietName, UnfilledNone, UnfilledThen
  <2> QED BY <1>1, <1>2, <2>2, CyclesUntouched
<1>4. CASE DeletePending
  <2>1. Doing("delete") /\ "delete" \notin Tight \cup {"exit"} /\ Then(<<>>) BY <1>4 DEF DeletePending, Tight
  <2>2. ~Filling(todo') BY <1>1, <2>1, QuietName, UnfilledNone, UnfilledThen
  <2> QED BY <1>1, <1>2, <2>2, CyclesUntouched
<1>5. CASE Consider
  <2>1. Doing("consider") /\ "consider" \notin Tight \cup {"exit"} BY <1>5 DEF Consider, Tight
  <2>2. todo # <<>> /\ Unfilled(Others) BY <1>1, <2>1, QuietName, UnfilledOthers
  <2> DEFINE fill == [do |-> "fill", p |-> Item, ref |-> Head(todo).bar.o, ts |-> Head(todo).bar.ts]
             delete == [do |-> "delete", p |-> Item]
  <2>3. "do" \in DOMAIN fill /\ fill.do \notin Fills /\ "do" \in DOMAIN delete /\ delete.do \notin Fills
    BY DEF Fills
  <2>4. Then(<<delete>> \o Others) \/ Then(<<fill, delete>> \o Others) \/ Then(Others)
    BY <1>5 DEF Consider
  <2> HIDE DEF fill, delete
  <2>5. Unfilled(<<delete>> \o Others) /\ Unfilled(<<fill, delete>> \o Others)
    BY <2>2, <2>3, UnfilledOne, UnfilledTwo, UnfilledConcat
  <2>6. ~Filling(todo') BY <1>1, <2>2, <2>4, <2>5, UnfilledThen
  <2> QED BY <1>1, <1>2, <2>6, CyclesUntouched
<1>6. CASE Remark
  <2>1. Doing("remark") /\ "remark" \notin Tight \cup {"exit"} BY <1>6 DEF Remark, Tight
  <2>2. MarkThen(Ids(openLots), Head(todo).close, <<>>) BY <1>6 DEF Remark
  <2>3. ~Filling(todo') BY <1>1, <2>1, <2>2, QuietName, UnfilledNone, UnfilledMarks
  <2> QED BY <1>1, <1>2, <2>3, CyclesUntouched
<1>7. CASE Settle
  <2>1. Doing("settle") /\ "settle" \notin Tight \cup {"exit"} BY <1>7 DEF Settle, Tight
  <2> DEFINE remaining == InScope(Head(todo).ch)
             x == [do |-> "ladder", left |-> <<>>, bar |-> Head(todo).bar]
             items == DeploymentsOf(remaining)
  <2>2. MarkThen(Ids(remaining), Head(todo).bar.c, Loop(x, items)) BY <1>7 DEF Settle
  <2>3. "do" \in DOMAIN x /\ x.do \notin Fills BY DEF Fills
  <2> HIDE DEF x, items, remaining
  <2>4. Unfilled(Loop(x, items)) BY <2>3, UnfilledLoop
  <2>5. ~Filling(todo') BY <1>1, <2>1, <2>2, <2>4, QuietName, UnfilledMarks
  <2> QED BY <1>1, <1>2, <2>5, CyclesUntouched
<1>8. CASE Sweep
  <2>1. Doing("sweep") /\ "sweep" \notin Tight \cup {"exit"} BY <1>8 DEF Sweep, Tight
  <2> DEFINE loop == [do |-> "exit", left |-> <<>>, bar |-> Head(todo).bar]
             settle == [do |-> "settle", bar |-> Head(todo).bar, ch |-> Head(todo).ch]
             left == InScope(Head(todo).ch)
  <2>2. Then(Loop(loop, left) \o <<settle>>) BY <1>8 DEF Sweep
  <2>3. "do" \in DOMAIN loop /\ loop.do \notin Fills /\ "do" \in DOMAIN settle /\ settle.do \notin Fills
    BY DEF Fills
  <2> HIDE DEF loop, settle, left
  <2>4. Unfilled(Loop(loop, left) \o <<settle>>) BY <2>3, UnfilledLoop, UnfilledOne, UnfilledConcat
  <2>5. ~Filling(todo') BY <1>1, <2>1, <2>2, <2>4, QuietName, UnfilledThen
  <2> QED BY <1>1, <1>2, <2>5, CyclesUntouched
<1>9. CASE Ladder
  <2>1. Doing("ladder") /\ "ladder" \notin Tight \cup {"exit"} BY <1>9 DEF Ladder, Tight
  <2>2. todo # <<>> /\ Unfilled(Others) BY <1>1, <2>1, QuietName, UnfilledOthers
  <2> DEFINE p == [sig |-> NoSignal, dep |-> Item, ts |-> Head(todo).bar.ts, price |-> Head(todo).bar.c,
                   created |-> Now, cycle |-> EntryCycle(Item), num |-> EntryNumber(Item) + 1]
             frame == [do |-> "persist", p |-> p]
  <2>3. Then(<<frame>> \o Others) \/ Then(Others) BY <1>9 DEF Ladder
  <2>4. "do" \in DOMAIN frame /\ frame.do \notin Fills BY DEF Fills
  <2> HIDE DEF frame
  <2>5. Unfilled(<<frame>> \o Others) BY <2>2, <2>4, UnfilledOne, UnfilledConcat
  <2>6. ~Filling(todo') BY <1>1, <2>2, <2>3, <2>5, UnfilledThen
  <2> QED BY <1>1, <1>2, <2>6, CyclesUntouched
<1> QED BY <1>3, <1>4, <1>5, <1>6, <1>7, <1>8, <1>9

\* A mark keeps the cycle of its row and the lot of its view.
LEMMA CyclesMarked == ASSUME Ledger, Cycles, Mark PROVE Cycles'
<1>1. ViewsOK /\ StackOK /\ RowsOK BY DEF Ledger
<1>2. Doing("mark") /\ "mark" \notin Tight \cup {"exit"} BY DEF Mark, Tight
<1>3. todo # <<>> /\ Unfilled(Others) BY <1>1, <1>2, QuietName, UnfilledOthers
<1>4. PICK cost, target, unreal, last, view :
         /\ MarkRow(Item, cost, target, unreal, last) /\ view.id = Item
         /\ openLots' = [i \in DOMAIN openLots |-> IF openLots[i].id = Item THEN view ELSE openLots[i]]
  BY DEF Mark
<1>5. SameCycles BY <1>1, <1>4, MarkKeepsCycles
<1>6. SomeViews BY <1>4 DEF SomeViews
<1>7. Then(Others) BY DEF Mark
<1>8. ~Filling(todo') BY <1>1, <1>3, <1>7, UnfilledThen
<1> QED BY <1>1, <1>5, <1>6, <1>8, CyclesKept

\* The exit loop marks the row of a lot that leaves.
LEMMA CyclesInExit == ASSUME Ledger, Cycles, Exit PROVE Cycles'
<1>1. ViewsOK /\ StackOK /\ RowsOK BY DEF Ledger
<1>2. todo # <<>> /\ Head(todo).do = "exit" BY DEF Exit, Doing
<1>3. ExitLoop(Head(todo)) BY <1>1, <1>2, HeadFrame
<1>4. Unfilled(Others) BY <1>2, <1>3, UnfilledOthers DEF ExitLoop, Fills
<1> PICK id : id = Item.id OBVIOUS
<1> PICK bar : bar = Head(todo).bar OBVIOUS
<1> PICK status : status = ExitStatus(id, bar) OBVIOUS
<1>5. UNCHANGED openLots BY DEF Exit, memory
<1>6. \/ Then(Others) /\ UNCHANGED lots
      \/ BeginClose(id, status, ExitPrice(id, bar, status), 2 * bar.ts)
  BY DEF Exit
<1>7. CASE Then(Others) /\ UNCHANGED lots
  <2>1. ~Filling(todo') BY <1>1, <1>2, <1>4, <1>7, UnfilledThen
  <2> QED BY <1>1, <1>5, <1>7, <2>1, CyclesUntouched
<1>8. CASE BeginClose(id, status, ExitPrice(id, bar, status), 2 * bar.ts)
  <2> PICK raw : raw = ExitPrice(id, bar, status) OBVIOUS
  <2> DEFINE cost == AcquisitionCost(id)
             close == [do |-> "close", id |-> id, status |-> status, raw |-> raw,
                       at |-> 2 * bar.ts, cost |-> cost]
  <2>1. \/ Raise /\ UNCHANGED lots
        \/ MarkRow(id, cost, ViewOf(id).target, 0, raw) /\ Then(<<close>> \o Others)
    BY <1>8 DEF BeginClose
  <2>2. "do" \in DOMAIN close /\ close.do \notin Fills BY DEF Fills
  <2> HIDE DEF close, cost
  <2>3. SameCycles BY <1>1, <2>1, CyclesUnchanged, MarkKeepsCycles
  <2>4. ~Filling(todo')
    <3>1. CASE Raise BY <3>1 DEF Raise, Filling
    <3>2. CASE Then(<<close>> \o Others)
      <4>1. Unfilled(<<close>> \o Others) BY <1>4, <2>2, UnfilledOne, UnfilledConcat
      <4> QED BY <1>1, <1>2, <3>2, <4>1, UnfilledThen
    <3> QED BY <2>1, <3>1, <3>2
  <2>5. SomeViews BY <1>5, SomeUnchanged
  <2> QED BY <1>1, <2>3, <2>4, <2>5, CyclesKept
<1> QED BY <1>6, <1>7, <1>8

\* The row is closed in its cycle.
LEMMA CyclesAtClose == ASSUME Ledger, Cycles, Close PROVE Cycles'
<1>1. ViewsOK /\ StackOK /\ RowsOK BY DEF Ledger
<1> PICK x : x = Head(todo) OBVIOUS
<1> PICK id : id = x.id OBVIOUS
<1> PICK old : old = lots[id] OBVIOUS
<1> PICK price : price = SellPrice(x.raw) OBVIOUS
<1> PICK pnl : pnl = (price - 2 * UnitFee) * old.qty - x.cost OBVIOUS
<1> PICK row : row = [old EXCEPT !.status = x.status, !.exitAt = x.at, !.cost = x.cost,
                                 !.pnl = pnl, !.unreal = 0, !.last = price] OBVIOUS
<1> PICK y : y = [do |-> "sell", id |-> id, price |-> price, at |-> x.at] OBVIOUS
<1>2. /\ Then(<<y>>) /\ todo # <<>>
      /\ lots' = (IF old.status # "OPEN" THEN lots ELSE [lots EXCEPT ![id] = row])
      /\ UNCHANGED openLots
  BY DEF Close, Doing, memory
<1>3. SameCycles
  <2>1. CASE old.status # "OPEN" BY <1>2, <2>1, CyclesUnchanged
  <2>2. CASE old.status = "OPEN"
    <3>1. lots' = [lots EXCEPT ![id] = row] BY <1>2, <2>2
    <3>2. id \in DOMAIN lots => SameCycle(row, lots[id])
      <4> SUFFICES ASSUME id \in DOMAIN lots PROVE SameCycle(row, old) OBVIOUS
      <4>1. {"dep", "num", "cycle"} \subseteq DOMAIN old BY <1>1 DEF RowsOK, RowOK, Cycles, CyclesOK
      <4> QED BY <4>1 DEF SameCycle
    <3> QED BY <3>1, <3>2, CycleWritten
  <2> QED BY <2>1, <2>2
<1>4. "do" \in DOMAIN y /\ y.do \notin Fills BY DEF Fills
<1>5. ~Filling(todo') BY <1>1, <1>2, <1>4, UnfilledOne, UnfilledThen
<1>6. SomeViews BY <1>2, SomeUnchanged
<1> QED BY <1>1, <1>3, <1>5, <1>6, CyclesKept

\* The trade of an exit numbers nothing.
LEMMA CyclesAtSale == ASSUME Ledger, Cycles, InsertSell PROVE Cycles'
<1>1. ViewsOK /\ StackOK BY DEF Ledger
<1> PICK y : y = [do |-> "credit", id |-> Head(todo).id, price |-> Head(todo).price] OBVIOUS
<1>2. Then(<<y>>) /\ todo # <<>> /\ UNCHANGED <<lots, openLots>> BY DEF InsertSell, Doing
<1>3. "do" \in DOMAIN y /\ y.do \notin Fills BY DEF Fills
<1>4. ~Filling(todo') BY <1>1, <1>2, <1>3, UnfilledOne, UnfilledThen
<1> QED BY <1>1, <1>2, <1>4, CyclesUntouched

\* A lot that leaves takes its view along.
LEMMA CyclesAtCredit == ASSUME Ledger, Cycles, Credit PROVE Cycles'
<1>1. ViewsOK /\ StackOK /\ Proper(openLots) BY DEF Ledger, ViewsOK
<1>2. Then(<<>>) /\ todo # <<>> /\ UNCHANGED lots /\ openLots' = Without(openLots, Head(todo).id)
  BY DEF Credit, Doing, Without
<1> PICK id : id = Head(todo).id OBVIOUS
<1> PICK rest : rest = Without(openLots, id) OBVIOUS
<1>3. \A a \in DOMAIN rest : \E i \in DOMAIN openLots : rest[a] = openLots[i] /\ openLots[i].id # id
  BY <1>1, OthersStay
<1>4. SomeViews BY <1>2, <1>3 DEF SomeViews
<1>5. ~Filling(todo') BY <1>1, <1>2, UnfilledNone, UnfilledThen
<1>6. SameCycles BY <1>2, CyclesUnchanged
<1> QED BY <1>1, <1>4, <1>5, <1>6, CyclesKept

\* An account without rows has no cycle.
LEMMA NoCycles == lots = <<>> /\ openLots = <<>> /\ ~Filling(todo) => Cycles
<1> SUFFICES ASSUME lots = <<>>, openLots = <<>>, ~Filling(todo) PROVE Cycles OBVIOUS
<1>1. DOMAIN lots = {} /\ DOMAIN openLots = {} BY ProperEmpty
<1>2. CyclesOK BY <1>1 DEF CyclesOK
<1>3. ViewsShare BY <1>1 DEF ViewsShare
<1>4. FillNumbered BY DEF FillNumbered, Filling, Doing, Fills
<1> QED BY <1>2, <1>3, <1>4 DEF Cycles

\* accounts.reset()
LEMMA CyclesWiped == ASSUME Ledger, Wipe PROVE Cycles'
<1>1. StackOK BY DEF Ledger
<1>2. Then(<<>>) /\ todo # <<>> /\ lots' = <<>> /\ openLots' = <<>> BY DEF Wipe, Doing
<1>3. ~Filling(todo') BY <1>1, <1>2, UnfilledNone, UnfilledThen
<1>4. (lots = <<>> /\ openLots = <<>> /\ ~Filling(todo) => Cycles)' BY NoCycles, PTL
<1> QED BY <1>2, <1>3, <1>4

-----------------------------------------------------------------------------
(* A fill numbers its lot. *)

\* The lots that a deployment holds: one of them is the first, and all are of
\* the cycle that it opens.
LEMMA HeldCycle ==
  ASSUME RowsOK, ViewsOK, ViewsShare, NEW d
  PROVE  /\ LotsFor(d) = <<>> => \A i \in DOMAIN openLots : lots[openLots[i].id].dep # d
         /\ LotsFor(d) # <<>> =>
               /\ \E k \in DOMAIN lots : lots[k].dep = d /\ lots[k].cycle = EntryCycle(d)
               /\ \A i \in DOMAIN openLots : lots[openLots[i].id].dep = d
                                                => lots[openLots[i].id].cycle = EntryCycle(d)
<1> DEFINE places == {i \in DOMAIN openLots : lots[openLots[i].id].dep = d}
           rest == Only(openLots, places)
<1>1. rest = LotsFor(d) BY DEF LotsFor
<1>2. \A i \in DOMAIN openLots : i \in places <=> lots[openLots[i].id].dep = d OBVIOUS
<1> HIDE DEF places
<1>3. /\ Proper(rest)
      /\ \A a \in DOMAIN rest : \E i \in DOMAIN openLots : rest[a] = openLots[i] /\ i \in places
      /\ \A i \in DOMAIN openLots : i \in places => \E a \in DOMAIN rest : rest[a] = openLots[i]
  BY OnlyKeeps DEF ViewsOK
<1> HIDE DEF rest
<1>4. ASSUME LotsFor(d) = <<>> PROVE \A i \in DOMAIN openLots : lots[openLots[i].id].dep # d
  BY <1>1, <1>2, <1>3, <1>4, ProperEmpty
<1>5. ASSUME LotsFor(d) # <<>>
      PROVE  /\ \E k \in DOMAIN lots : lots[k].dep = d /\ lots[k].cycle = EntryCycle(d)
             /\ \A i \in DOMAIN openLots : lots[openLots[i].id].dep = d
                                              => lots[openLots[i].id].cycle = EntryCycle(d)
  <2>1. 1 \in DOMAIN rest BY <1>1, <1>3, <1>5, ProperTail
  <2>2. PICK i \in DOMAIN openLots : rest[1] = openLots[i] /\ i \in places BY <1>3, <2>1
  <2>3. openLots[i].id \in DOMAIN lots /\ lots[openLots[i].id].dep = d BY <1>2, <2>2 DEF ViewsOK
  <2>4. EntryCycle(d) = lots[openLots[i].id].cycle BY <1>1, <1>5, <2>2 DEF EntryCycle
  <2> QED BY <2>3, <2>4 DEF ViewsShare, Joins
<1> QED BY <1>4, <1>5

\* The rows are finitely many.
LEMMA RowsFinite == ASSUME RowsOK, NEW C \in SUBSET DOMAIN lots PROVE IsFiniteSet(C)
<1>1. Len(lots) \in Nat /\ DOMAIN lots = 1..Len(lots) BY ProperDomain DEF RowsOK
<1>2. IsFiniteSet(DOMAIN lots) BY <1>1, FS_Interval
<1> QED BY <1>2, FS_Subset

\* What the rows of some lots hold is finite.
LEMMA ValuesFinite ==
  ASSUME RowsOK, NEW C \in SUBSET DOMAIN lots, NEW v
  PROVE  IsFiniteSet({v[i] : i \in C})
<1> DEFINE T == {v[i] : i \in C}
           f == [i \in C |-> v[i]]
<1>1. f \in Surjection(C, T) BY DEF Surjection
<1>2. IsFiniteSet(C) BY RowsFinite
<1> HIDE DEF f, T
<1>3. IsFiniteSet(T) BY <1>1, <1>2, FS_Surjection
<1> QED BY <1>3 DEF T

\* A cycle that nobody has yet.
LEMMA NewCycle ==
  ASSUME RowsOK, CyclesOK, NEW d, LotsFor(d) = <<>>
  PROVE  EntryCycle(d) \in Nat \ {0} /\ \A i \in DOMAIN lots : lots[i].cycle # EntryCycle(d)
<1> DEFINE R == {lots[i].cycle : i \in DOMAIN lots}
           v == [i \in DOMAIN lots |-> lots[i].cycle]
           S == {0} \cup R
<1>1. R = {v[i] : i \in DOMAIN lots} OBVIOUS
<1>2. IsFiniteSet(R)
  <2>1. DOMAIN lots \in SUBSET DOMAIN lots OBVIOUS
  <2> HIDE DEF v, R
  <2> QED BY <1>1, <2>1, ValuesFinite
<1>3. \A i \in DOMAIN lots : lots[i].cycle \in Nat \ {0} /\ lots[i].cycle \in R BY DEF CyclesOK
<1>4. R \subseteq Nat BY <1>3
<1>5. EntryCycle(d) = 1 + Max(S) BY DEF EntryCycle
<1> HIDE DEF R
<1>6. IsFiniteSet(S) /\ S # {} /\ S \in SUBSET Int /\ 0 \in S
  <2>1. IsFiniteSet({0}) BY FS_Singleton
  <2>2. IsFiniteSet(S) BY <1>2, <2>1, FS_Union
  <2> QED BY <1>4, <2>2
<1>7. Max(S) \in S /\ \A y \in S : Max(S) >= y BY <1>6, MaxIsGreatest
<1>9. \A i \in DOMAIN lots : lots[i].cycle \in S BY <1>3
<1>13. S \subseteq Nat BY <1>4
<1> HIDE DEF S
<1>8. Max(S) \in Nat BY <1>7, <1>13
<1>10. \A i \in DOMAIN lots : lots[i].cycle <= Max(S) /\ lots[i].cycle \in Nat BY <1>3, <1>7, <1>8, <1>9
<1> PICK m : m = Max(S) OBVIOUS
<1>11. m \in Nat /\ EntryCycle(d) = 1 + m BY <1>5, <1>8
<1>12. \A i \in DOMAIN lots : lots[i].cycle # 1 + m BY <1>10, <1>11
<1> QED BY <1>11, <1>12

\* The cycle that a lot of d joins has the numbers up to EntryNumber(d), no other.
LEMMA CycleSoFar ==
  ASSUME RowsOK, ViewsOK, CyclesOK, ViewsShare, NEW d
  PROVE  /\ EntryNumber(d) \in Nat /\ EntryCycle(d) \in Nat \ {0}
         /\ \A i \in DOMAIN lots : lots[i].cycle = EntryCycle(d)
                                      => lots[i].dep = d /\ lots[i].num <= EntryNumber(d)
         /\ \A n \in 1..EntryNumber(d) : \E j \in DOMAIN lots :
               lots[j].cycle = EntryCycle(d) /\ lots[j].num = n
<1>0. EntryNumber(d) \in Nat BY ViewsAreShown, EntryNumberIsNatural
<1>1. CASE LotsFor(d) = <<>>
  <2>1. EntryNumber(d) = 0 BY <1>1 DEF EntryNumber
  <2>2. EntryCycle(d) \in Nat \ {0} /\ \A i \in DOMAIN lots : lots[i].cycle # EntryCycle(d) BY <1>1, NewCycle
  <2> QED BY <2>1, <2>2
<1>2. CASE LotsFor(d) # <<>>
  <2>1. PICK k \in DOMAIN lots : lots[k].dep = d /\ lots[k].cycle = EntryCycle(d) BY <1>2, HeldCycle
  <2> PICK c : c = EntryCycle(d) OBVIOUS
  <2> PICK C : C = CycleLots(c) OBVIOUS
  <2>2. C \in SUBSET DOMAIN lots /\ k \in C /\ \A i \in DOMAIN lots : i \in C <=> lots[i].cycle = c
    BY <2>1 DEF CycleLots
  <2> DEFINE T == {lots[i].num : i \in C}
             v == [i \in DOMAIN lots |-> lots[i].num]
  <2>3. T = {v[i] : i \in C} BY <2>2
  <2>4. IsFiniteSet(T)
    <3> HIDE DEF T, v
    <3> QED BY <2>2, <2>3, ValuesFinite
  <2>5. T \in SUBSET Int /\ T # {} BY <2>2 DEF RowsOK, RowOK
  <2>6. EntryNumber(d) = Max(T) BY <1>2 DEF EntryNumber
  <2>7. \A i \in C : lots[i].num \in T OBVIOUS
  <2>8. \A t \in T : \E i \in C : lots[i].num = t OBVIOUS
  <2> HIDE DEF T
  <2> PICK m : m = Max(T) OBVIOUS
  <2>9. m \in T /\ \A t \in T : m >= t BY <2>4, <2>5, MaxIsGreatest
  <2>10. PICK top \in C : lots[top].num = m BY <2>8, <2>9
  <2>11. \A i \in C : lots[i].dep = d /\ lots[i].num <= m
    <3> TAKE i \in C
    <3>1. lots[i].cycle = lots[k].cycle BY <2>1, <2>2
    <3>2. lots[i].dep = lots[k].dep BY <2>2, <3>1 DEF CyclesOK
    <3>3. lots[i].num \in T BY <2>7
    <3>4. lots[i].num \in Int /\ m \in Int BY <2>5, <2>9, <3>3
    <3> QED BY <2>1, <2>9, <3>2, <3>3, <3>4
  <2>12. \A n \in 1..m : \E j \in DOMAIN lots : lots[j].cycle = c /\ lots[j].num = n
    <3> TAKE n \in 1..m
    <3>1. top \in DOMAIN lots /\ n \in 1..lots[top].num /\ lots[top].cycle = c BY <2>2, <2>10
    <3>2. PICK j \in CycleLots(lots[top].cycle) : lots[j].num = n BY <3>1 DEF CyclesOK
    <3> QED BY <3>1, <3>2 DEF CycleLots
  <2>13. c \in Nat \ {0} BY <2>1 DEF CyclesOK
  <2> QED BY <1>0, <2>2, <2>6, <2>11, <2>12, <2>13
<1> QED BY <1>1, <1>2

\* The row of an admitted order is the next one of its cycle.
LEMMA NewLotIsNext ==
  ASSUME RowsOK, ViewsOK, NEW p, p.dep \in Deployments, NEW ref, NEW ts, ~Rejected(p, ref, ts)
  PROVE  NextOfCycle(NewLot(p, ref, ts))
<1> PICK d : d = p.dep OBVIOUS
<1> PICK n : n = EntryNumber(d) OBVIOUS
<1> PICK top : top = MaximumEntries(Config[d]) OBVIOUS
<1> PICK row : row = NewLot(p, ref, ts) OBVIOUS
<1>1. n \in Nat BY ViewsAreShown, EntryNumberIsNatural
<1>2. ~ (n >= top) BY DEF Rejected
<1>3. top \in Int
  <2>1. Config[d].maxEntries \in Int /\ Len(Config[d].high) \in Int BY ConfigsAreValid
  <2>2. Min({Config[d].maxEntries, Len(Config[d].high)}) \in Int BY <2>1, OfTwo
  <2> QED BY <2>1, <2>2 DEF MaximumEntries
<1>4. n + 1 <= top BY <1>1, <1>2, <1>3
<1>5. row.dep = d /\ row.cycle = EntryCycle(d) /\ row.num = n + 1 /\ "cycle" \in DOMAIN row BY DEF NewLot
<1> QED BY <1>4, <1>5 DEF NextOfCycle

\* A pending entry is filled with the next number of its cycle, or refused.
LEMMA CyclesAtFill == ASSUME Ledger, Cycles, FillEntry PROVE Cycles'
<1>1. ViewsOK /\ StackOK /\ RowsOK BY DEF Ledger
<1> PICK x : x = Head(todo) OBVIOUS
<1> PICK lot : lot = NewLot(x.p, x.ref, x.ts) OBVIOUS
<1>2. Doing("fill") /\ "fill" \notin Tight \cup {"exit"} BY DEF FillEntry, Tight
<1>3. todo # <<>> /\ x.p.dep \in Deployments /\ Quiets(Tail(todo)) /\ x.do = "fill"
  BY <1>1, <1>2, QuietHead DEF Quiet
<1>4. UNCHANGED <<lots, openLots>> BY DEF FillEntry, memory
<1>5. \/ Then(<<>>)
      \/ ~Rejected(x.p, x.ref, x.ts) /\ Then(<<[do |-> "lot", lot |-> lot]>>)
  BY DEF FillEntry
<1>6. CASE Then(<<>>)
  <2>1. ~Filling(todo') BY <1>1, <1>3, <1>6, UnfilledNone, UnfilledThen
  <2> QED BY <1>1, <1>4, <2>1, CyclesUntouched
<1>7. CASE ~Rejected(x.p, x.ref, x.ts) /\ Then(<<[do |-> "lot", lot |-> lot]>>)
  <2> PICK y : y = [do |-> "lot", lot |-> lot] OBVIOUS
  <2>1. y.do = "lot" /\ y.lot = lot OBVIOUS
  <2>2. NextOfCycle(lot) BY <1>1, <1>3, <1>7, NewLotIsNext
  <2>3. todo' = <<y>> \o Tail(todo) BY <1>7 DEF Then
  <2>4. Rest(Tail(todo)) BY <1>3, QuietsRest
  <2>5. todo' # <<>> /\ Head(todo') = y BY <2>3, <2>4, PushOne DEF Rest
  <2>6. CyclesOK' BY <1>4 DEF Cycles, CyclesOK, CycleLots
  <2>7. ViewsShare' BY <1>4 DEF Cycles, ViewsShare, Joins
  <2>8. (\A r : NextOfCycle(r)' <=> NextOfCycle(r))
    BY <1>4 DEF NextOfCycle, EntryCycle, EntryNumber, CycleLots, LotsFor
  <2>9. FillNumbered' BY <2>1, <2>2, <2>5, <2>8 DEF FillNumbered, Doing
  <2> QED BY <2>6, <2>7, <2>9 DEF Cycles
<1> QED BY <1>5, <1>6, <1>7

\* lots.insert(): the cycle goes on by one.
LEMMA CyclesAtInsert == ASSUME Ledger, Cycles, InsertLot PROVE Cycles'
<1>1. ViewsOK /\ StackOK /\ RowsOK /\ CyclesOK /\ ViewsShare BY DEF Ledger, Cycles
<1> PICK lot : lot = Head(todo).lot OBVIOUS
<1> PICK id : id = Len(lots) + 1 OBVIOUS
<1> PICK x : x = Step("buy", id) OBVIOUS
<1>2. /\ lots' = Append(lots, lot) /\ Then(<<x>>) /\ todo # <<>> /\ Head(todo).do = "lot"
      /\ openLots' = openLots
  BY DEF InsertLot, Doing, memory
<1>3. Fresh(lot) /\ NextOfCycle(lot) BY <1>1, <1>2 DEF StackOK, HeadOK, Doing, Cycles, FillNumbered
<1> PICK d : d = lot.dep OBVIOUS
<1> PICK c : c = EntryCycle(d) OBVIOUS
<1> PICK n : n = EntryNumber(d) OBVIOUS
<1>4. lot.cycle = c /\ lot.num = n + 1 /\ lot.num <= MaximumEntries(Config[d]) /\ "cycle" \in DOMAIN lot
  BY <1>3 DEF NextOfCycle
<1>5. /\ n \in Nat /\ c \in Nat \ {0}
      /\ \A i \in DOMAIN lots : lots[i].cycle = c => lots[i].dep = d /\ lots[i].num <= n
      /\ \A m \in 1..n : \E j \in DOMAIN lots : lots[j].cycle = c /\ lots[j].num = m
  BY <1>1, CycleSoFar
<1>6. /\ \A i \in DOMAIN lots : i \in DOMAIN lots' /\ lots'[i] = lots[i]
      /\ \A i \in DOMAIN lots' : i \in DOMAIN lots \/ i = id
      /\ lots'[id] = lot /\ id \in DOMAIN lots' /\ id \notin DOMAIN lots
  <2>1. Proper(lots) BY <1>1 DEF RowsOK
  <2>2. Len(lots) \in Nat /\ DOMAIN lots = 1..Len(lots) BY <2>1, ProperDomain
  <2>3. /\ DOMAIN lots' = 1..id /\ lots'[id] = lot
        /\ \A i \in DOMAIN lots : i \in DOMAIN lots' /\ lots'[i] = lots[i]
    BY <1>2, <2>1, ProperAppend
  <2> QED BY <2>2, <2>3
<1>7. CyclesOK'
  <2>1. \A i \in DOMAIN lots' :
           /\ "cycle" \in DOMAIN lots'[i] /\ lots'[i].cycle \in Nat \ {0}
           /\ lots'[i].num <= MaximumEntries(Config[lots'[i].dep])
    BY <1>1, <1>4, <1>5, <1>6 DEF CyclesOK
  <2>2. ASSUME NEW i \in DOMAIN lots', NEW m \in 1..lots'[i].num
        PROVE \E j \in DOMAIN lots' : lots'[j].cycle = lots'[i].cycle /\ lots'[j].num = m
    <3>1. CASE i \in DOMAIN lots
      <4>1. lots'[i] = lots[i] /\ m \in 1..lots[i].num BY <1>6, <2>2, <3>1
      <4>2. PICK j \in CycleLots(lots[i].cycle) : lots[j].num = m BY <1>1, <3>1, <4>1 DEF CyclesOK
      <4>3. j \in DOMAIN lots /\ lots[j].cycle = lots[i].cycle BY <4>2 DEF CycleLots
      <4> QED BY <1>6, <4>1, <4>2, <4>3
    <3>2. CASE i = id
      <4>1. lots'[i].cycle = c /\ m \in 1..(n + 1) BY <1>4, <1>6, <2>2, <3>2
      <4>2. CASE m = n + 1 BY <1>4, <1>6, <4>1, <4>2
      <4>3. CASE m # n + 1
        <5>1. m \in 1..n BY <1>5, <4>1, <4>3
        <5>2. PICK j \in DOMAIN lots : lots[j].cycle = c /\ lots[j].num = m BY <1>5, <5>1
        <5> QED BY <1>6, <4>1, <5>2
      <4> QED BY <4>2, <4>3
    <3> QED BY <1>6, <3>1, <3>2
  <2>3. ASSUME NEW i \in DOMAIN lots', NEW j \in DOMAIN lots', lots'[i].cycle = lots'[j].cycle
        PROVE lots'[i].dep = lots'[j].dep /\ (lots'[i].num = lots'[j].num => i = j)
    <3>1. \A k \in DOMAIN lots : lots[k].cycle = c => lots[k].dep = d /\ lots[k].num # n + 1
      <4> TAKE k \in DOMAIN lots
      <4> HAVE lots[k].cycle = c
      <4>1. lots[k].dep = d /\ lots[k].num <= n BY <1>5
      <4>2. lots[k].num \in Nat BY <1>1 DEF RowsOK, RowOK
      <4> QED BY <1>5, <4>1, <4>2
    <3>2. CASE i \in DOMAIN lots /\ j \in DOMAIN lots BY <1>1, <1>6, <2>3, <3>2 DEF CyclesOK
    <3>3. CASE i \in DOMAIN lots /\ j = id BY <1>4, <1>6, <2>3, <3>1, <3>3
    <3>4. CASE i = id /\ j \in DOMAIN lots BY <1>4, <1>6, <2>3, <3>1, <3>4
    <3>5. CASE i = id /\ j = id BY <3>5
    <3> QED BY <1>6, <3>2, <3>3, <3>4, <3>5
  <2> QED BY <2>1, <2>2, <2>3 DEF CyclesOK, CycleLots
<1>8. \A i \in DOMAIN openLots : openLots[i].id \in DOMAIN lots /\ lots'[openLots[i].id] = lots[openLots[i].id]
  BY <1>1, <1>6 DEF ViewsOK
<1>9. ViewsShare' BY <1>1, <1>2, <1>8 DEF ViewsShare, Joins
<1>10. todo' # <<>> /\ Head(todo') = x
  <2>1. x.do \in Tight /\ Head(todo).do \in Tight BY <1>2 DEF Step, Tight
  <2> QED BY <1>1, <1>2, <2>1, HeadReplaced
<1>11. x.do = "buy" /\ x.id = id BY DEF Step
<1>12. \A i \in DOMAIN openLots : lots[openLots[i].id].dep = d => lots[openLots[i].id].cycle = c
  BY <1>1, HeldCycle
<1>13. FillNumbered'
  <2>1. \A i \in DOMAIN openLots' : lots'[openLots'[i].id].dep = lots'[id].dep
                                       => lots'[openLots'[i].id].cycle = lots'[id].cycle
    BY <1>2, <1>4, <1>6, <1>8, <1>12
  <2> QED BY <1>10, <1>11, <2>1 DEF FillNumbered, Doing, Joins
<1> QED BY <1>7, <1>9, <1>13 DEF Cycles

\* The trade of a fill numbers nothing.
LEMMA CyclesAtBuy == ASSUME Ledger, Cycles, InsertBuy PROVE Cycles'
<1>1. ViewsOK /\ StackOK BY DEF Ledger
<1> PICK id : id = Head(todo).id OBVIOUS
<1> PICK y : y = Step("debit", id) OBVIOUS
<1>2. /\ Then(<<y>>) /\ todo # <<>> /\ Head(todo).do = "buy" /\ UNCHANGED <<lots, openLots>>
  BY DEF InsertBuy, Doing
<1>3. y.do = "debit" /\ y.id = id /\ y.do \in Tight /\ Head(todo).do \in Tight BY <1>2 DEF Step, Tight
<1>4. todo' # <<>> /\ Head(todo') = y BY <1>1, <1>2, <1>3, HeadReplaced
<1>5. Joins(lots[id]) BY <1>2 DEF Cycles, FillNumbered, Doing
<1>6. CyclesOK' BY <1>2 DEF Cycles, CyclesOK, CycleLots
<1>7. ViewsShare' BY <1>2 DEF Cycles, ViewsShare, Joins
<1>8. FillNumbered' BY <1>2, <1>3, <1>4, <1>5 DEF FillNumbered, Doing, Joins
<1> QED BY <1>6, <1>7, <1>8 DEF Cycles

\* The account pays, and the lot joins the open ones of its cycle.
LEMMA CyclesAtDebit == ASSUME Ledger, Cycles, Debit PROVE Cycles'
<1>1. ViewsOK /\ StackOK /\ ViewsShare BY DEF Ledger, Cycles
<1> PICK id : id = Head(todo).id OBVIOUS
<1> PICK v : v = View(id, lots[id]) OBVIOUS
<1> PICK y : y = [do |-> "remark", close |-> lots[id].entryPrice] OBVIOUS
<1>2. /\ Then(<<y>>) /\ todo # <<>> /\ Head(todo).do = "debit" /\ UNCHANGED lots
      /\ openLots' = Append(openLots, v)
  BY DEF Debit, Doing
<1>3. Joins(lots[id]) BY <1>2 DEF Cycles, FillNumbered, Doing
<1>4. v.id = id BY DEF View
<1>5. "do" \in DOMAIN y /\ y.do \notin Fills BY DEF Fills
<1>6. ~Filling(todo') BY <1>1, <1>2, <1>5, UnfilledOne, UnfilledThen
<1>7. CyclesOK' BY <1>2 DEF Cycles, CyclesOK, CycleLots
<1>8. /\ \A i \in DOMAIN openLots : openLots'[i] = openLots[i]
      /\ \A i \in DOMAIN openLots' : i \in DOMAIN openLots \/ openLots'[i] = v
  <2>1. Proper(openLots) BY <1>1 DEF ViewsOK
  <2>2. Len(openLots) \in Nat /\ DOMAIN openLots = 1..Len(openLots) BY <2>1, ProperDomain
  <2>3. /\ DOMAIN openLots' = 1..(Len(openLots) + 1) /\ openLots'[Len(openLots) + 1] = v
        /\ \A i \in DOMAIN openLots : openLots'[i] = openLots[i]
    BY <1>2, <2>1, ProperAppend
  <2> QED BY <2>2, <2>3
<1>9. ViewsShare'
  <2> SUFFICES ASSUME NEW a \in DOMAIN openLots', NEW b \in DOMAIN openLots',
                      lots'[openLots'[b].id].dep = lots'[openLots'[a].id].dep
               PROVE  lots'[openLots'[b].id].cycle = lots'[openLots'[a].id].cycle
    BY DEF ViewsShare, Joins
  <2>5. lots' = lots BY <1>2
  <2>1. CASE a \in DOMAIN openLots /\ b \in DOMAIN openLots BY <1>1, <1>8, <2>1, <2>5 DEF ViewsShare, Joins
  <2>2. CASE a \in DOMAIN openLots /\ openLots'[b] = v BY <1>3, <1>4, <1>8, <2>2, <2>5 DEF Joins
  <2>3. CASE openLots'[a] = v /\ b \in DOMAIN openLots BY <1>3, <1>4, <1>8, <2>3, <2>5 DEF Joins
  <2>4. CASE openLots'[a] = v /\ openLots'[b] = v BY <2>4
  <2> QED BY <1>8, <2>1, <2>2, <2>3, <2>4
<1>10. FillNumbered' BY <1>6 DEF FillNumbered, Filling, Doing, Fills
<1> QED BY <1>7, <1>9, <1>10 DEF Cycles

-----------------------------------------------------------------------------
(* The invariant of the cycles. *)

\* What a step of a handler keeps of the cycles.
LEMMA HandlerCycles == ASSUME Ledger, Cycles, HandlerStep PROVE Cycles'
<1>1. CASE Persist \/ Consider \/ DeletePending \/ Remark \/ Sweep \/ Settle \/ Ladder
  BY <1>1, CyclesInHandler
<1>2. CASE FillEntry \/ InsertLot \/ InsertBuy \/ Debit
  BY <1>2, CyclesAtFill, CyclesAtInsert, CyclesAtBuy, CyclesAtDebit
<1>3. CASE Mark \/ Exit \/ Close \/ InsertSell \/ Credit \/ Wipe
  BY <1>3, CyclesMarked, CyclesInExit, CyclesAtClose, CyclesAtSale, CyclesAtCredit, CyclesWiped
<1> QED BY <1>1, <1>2, <1>3 DEF HandlerStep

\* A handler that starts, the market and the settings number nothing.
LEMMA CyclesBetween ==
  ASSUME Ledger, Cycles,
         \/ \E d \in Deployments : OnSignal(d) \/ ReconcileWorkers(d)
         \/ \E ch \in Channels : OnCandle(ch)
         \/ ResetAccount \/ PrintBar
  PROVE  Cycles'
<1>1. ViewsOK BY DEF Ledger
<1>2. UNCHANGED <<lots, openLots>>
  BY DEF OnSignal, ReconcileWorkers, OnCandle, ResetAccount, PrintBar, db, memory
<1>3. CASE \E d \in Deployments : OnSignal(d)
  <2>1. PICK d \in Deployments : OnSignal(d) BY <1>3
  <2>2. PICK x : todo' = <<>> \/ (todo' = <<x>> /\ "do" \in DOMAIN x /\ x.do \notin Fills)
    <3> DEFINE ts == LatestBar(d)
               p == [sig |-> <<d, ts>>, dep |-> d, ts |-> ts, price |-> tape[ts + Span(d)].c,
                     created |-> Now, cycle |-> 0, num |-> 0]
               persist == [do |-> "persist", p |-> p]
               fill == [do |-> "fill", p |-> p, ref |-> p.price, ts |-> ts]
    <3>1. todo' = <<>> \/ todo' = <<persist>> \/ todo' = <<fill>> BY <2>1 DEF OnSignal, Idle
    <3>2. "do" \in DOMAIN persist /\ persist.do \notin Fills /\ "do" \in DOMAIN fill /\ fill.do \notin Fills
      BY DEF Fills
    <3> HIDE DEF persist, fill
    <3> QED BY <3>1, <3>2
  <2>3. Unfilled(todo') BY <2>2, UnfilledNone, UnfilledOne
  <2> QED BY <1>1, <1>2, <2>3, UnfilledStack, CyclesUntouched
<1>4. CASE \E ch \in Channels : OnCandle(ch)
  <2>1. PICK ch \in Channels : OnCandle(ch) BY <1>4
  <2> DEFINE bar == BarAt(NextTs(ch), FeedLen(ch))
             consider == [do |-> "consider", left |-> <<>>, bar |-> bar, ch |-> ch]
             sweep == [do |-> "sweep", bar |-> bar, ch |-> ch]
  <2>2. todo' = Loop(consider, queue) \o <<sweep>> BY <2>1 DEF OnCandle
  <2>3. "do" \in DOMAIN consider /\ consider.do \notin Fills /\ "do" \in DOMAIN sweep /\ sweep.do \notin Fills
    BY DEF Fills
  <2> HIDE DEF consider, sweep
  <2>4. Unfilled(todo') BY <2>2, <2>3, UnfilledLoop, UnfilledOne, UnfilledConcat
  <2> QED BY <1>1, <1>2, <2>4, UnfilledStack, CyclesUntouched
<1>5. CASE ResetAccount \/ PrintBar \/ \E d \in Deployments : ReconcileWorkers(d)
  <2> DEFINE x == [do |-> "wipe"]
  <2>1. todo' = <<>> \/ todo' = <<x>>
    BY <1>5 DEF ResetAccount, PrintBar, ReconcileWorkers, Idle, handler
  <2>2. "do" \in DOMAIN x /\ x.do \notin Fills BY DEF Fills
  <2> HIDE DEF x
  <2>3. Unfilled(todo') BY <2>1, <2>2, UnfilledNone, UnfilledOne
  <2> QED BY <1>1, <1>2, <2>3, UnfilledStack, CyclesUntouched
<1> QED BY <1>3, <1>4, <1>5

\* A lot closed from the user interface keeps its cycle.
LEMMA CyclesByHand ==
  ASSUME Ledger, Cycles, NEW id \in Ids(openLots), CloseLotManually(id) PROVE Cycles'
<1>1. ViewsOK /\ RowsOK BY DEF Ledger
<1> PICK price : price = ViewOf(id).last OBVIOUS
<1> PICK cost : cost = AcquisitionCost(id) OBVIOUS
<1> DEFINE x == [do |-> "close", id |-> id, status |-> "CLOSED", raw |-> price, at |-> Now, cost |-> cost]
           y == [do |-> "remark", close |-> price]
<1>2. /\ todo = <<>> /\ UNCHANGED openLots
      /\ \/ UNCHANGED <<lots, todo>>
         \/ MarkRow(id, cost, ViewOf(id).target, 0, price) /\ todo' = <<x, y>>
  BY DEF CloseLotManually, Idle, memory
<1>3. "do" \in DOMAIN x /\ x.do \notin Fills /\ "do" \in DOMAIN y /\ y.do \notin Fills BY DEF Fills
<1> HIDE DEF x, y
<1>4. Unfilled(todo') BY <1>2, <1>3, UnfilledNone, UnfilledTwo
<1>5. SameCycles BY <1>1, <1>2, CyclesUnchanged, MarkKeepsCycles
<1>6. SomeViews BY <1>2, SomeUnchanged
<1> QED BY <1>1, <1>4, <1>5, <1>6, UnfilledStack, CyclesKept

\* One step, of the process or of what happens to it.
LEMMA CycleStep == CycleInv /\ [Next]_vars /\ [Crash \/ TakeOver => MemoryIsRebuildable]_vars => CycleInv'
<1> SUFFICES ASSUME CycleInv, [Next]_vars, [Crash \/ TakeOver => MemoryIsRebuildable]_vars PROVE CycleInv'
  OBVIOUS
<1>1. LedgerInv' BY LedgerStep DEF CycleInv
<1>2. torn \in Nat /\ stale \in BOOLEAN BY DEF CycleInv, LedgerInv
<1>3. ASSUME torn = 0, ~stale PROVE Ledger /\ Cycles /\ ViewsOK BY <1>3 DEF CycleInv, LedgerInv, Ledger
<1> SUFFICES ASSUME torn' = 0, ~stale' PROVE Cycles' BY <1>1 DEF CycleInv
<1>4. CASE HandlerStep
  <2>1. UNCHANGED <<torn, stale>>
    BY <1>4 DEF HandlerStep, Persist, Consider, DeletePending, FillEntry, InsertLot, InsertBuy, Debit, Remark,
                Mark, Sweep, Exit, Close, InsertSell, Credit, Settle, Ladder, Wipe, world, counters
  <2> QED BY <1>3, <1>4, <2>1, HandlerCycles
<1>5. CASE \/ \E d \in Deployments : OnSignal(d) \/ ReconcileWorkers(d)
           \/ \E ch \in Channels : OnCandle(ch)
           \/ ResetAccount \/ PrintBar
  <2>1. UNCHANGED <<torn, stale>>
    BY <1>5 DEF OnSignal, ReconcileWorkers, OnCandle, ResetAccount, PrintBar, world, counters
  <2>2. Ledger /\ Cycles BY <1>3, <2>1
  <2> QED BY <1>5, <2>2, CyclesBetween
<1>6. CASE \E id \in Ids(openLots) : CloseLotManually(id)
  <2>1. PICK id \in Ids(openLots) : CloseLotManually(id) BY <1>6
  <2>2. UNCHANGED <<torn, stale>> BY <2>1 DEF CloseLotManually, world
  <2> QED BY <1>3, <2>1, <2>2, CyclesByHand
<1>7. CASE DatabaseError
  <2>1. torn' = torn + 1 BY <1>7 DEF DatabaseError
  <2> QED BY <1>2, <2>1
<1>8. CASE StartStandby \/ UNCHANGED vars
  <2>1. UNCHANGED <<torn, stale, lots, openLots, todo>> BY <1>8, OwnerGoesOn DEF db, memory, handler
  <2>2. ViewsOK /\ Cycles /\ UNCHANGED lots /\ UNCHANGED openLots /\ UNCHANGED todo BY <1>3, <2>1
  <2>3. SameCycles /\ SomeViews BY <2>2, CyclesUnchanged, SomeUnchanged
  <2>4. CyclesOK' /\ ViewsShare' BY <2>2, <2>3, CyclesKeep
  <2>5. FillNumbered BY <2>2 DEF Cycles
  <2>6. FillNumbered'
    <3>1. Doing("lot") => NextOfCycle(Head(todo).lot)'
      BY <2>2, <2>5, Zenon DEF FillNumbered, NextOfCycle, EntryCycle, EntryNumber, CycleLots, LotsFor
    <3>2. Doing("buy") \/ Doing("debit") => Joins(lots[Head(todo).id])'
      BY <2>2, <2>5, Zenon DEF FillNumbered, Joins
    <3> QED BY <2>2, <3>1, <3>2 DEF FillNumbered, Doing
  <2> QED BY <2>4, <2>6 DEF Cycles
<1>9. CASE Crash \/ TakeOver
  <2>1. torn' = IF Idle THEN torn ELSE torn + 1 BY <1>9 DEF Crash, TakeOver, OwnerEnds
  <2>2. Idle /\ torn = 0 BY <1>2, <2>1
  <2>3. Rebuilds /\ ~stale BY <1>9, OwnersRebuild
  <2>4. CASE MemoryIsRebuildable
    <3>1. openLots = StoredLots BY <2>2, <2>3, <2>4 DEF MemoryIsRebuildable, Calm
    <3>2. UNCHANGED <<lots, openLots>> /\ todo' = <<>>
      BY <2>3, <3>1 DEF Rebuilds, OwnerEnds, Remember, StoredMemory, db
    <3>3. ~Filling(todo') BY <3>2 DEF Filling
    <3> QED BY <1>3, <2>2, <2>3, <3>2, <3>3, CyclesUntouched
  <2>5. CASE UNCHANGED vars BY <1>8, <2>5
  <2> QED BY <1>9, <2>4, <2>5
<1> QED BY <1>4, <1>5, <1>6, <1>7, <1>8, <1>9 DEF Next

\* A cycle with the numbers up to its greatest one, each once, has as many lots.
LEMMA CycleCounts ==
  ASSUME RowsOK, CyclesOK, NEW i \in DOMAIN lots
  PROVE  LET C == CycleLots(lots[i].cycle)
         IN  /\ {lots[j].num : j \in C} = 1..Cardinality(C)
             /\ Cardinality(C) <= MaximumEntries(Config[lots[i].dep])
<1> PICK c : c = lots[i].cycle OBVIOUS
<1> PICK C : C = CycleLots(c) OBVIOUS
<1>1. C \in SUBSET DOMAIN lots /\ i \in C /\ \A j \in DOMAIN lots : j \in C <=> lots[j].cycle = c
  BY DEF CycleLots
<1>2. \A j \in C : lots[j].num \in Nat \ {0} BY <1>1 DEF RowsOK, RowOK
<1> DEFINE T == {lots[j].num : j \in C}
           v == [j \in DOMAIN lots |-> lots[j].num]
           f == [j \in C |-> lots[j].num]
<1>3. IsFiniteSet(C) BY <1>1, RowsFinite
<1>4. IsFiniteSet(T)
  <2>1. T = {v[j] : j \in C} BY <1>1
  <2> HIDE DEF T, v
  <2> QED BY <1>1, <2>1, ValuesFinite
<1>5. T \in SUBSET Int /\ T # {} BY <1>1, <1>2
<1>6. \A j \in C : lots[j].num \in T OBVIOUS
<1>7. \A t \in T : \E j \in C : lots[j].num = t OBVIOUS
<1>8. f \in Surjection(C, T) BY DEF Surjection
<1>9. f \in Injection(C, T)
  <2>1. f \in [C -> T] OBVIOUS
  <2>2. \A a, b \in C : lots[a].num = lots[b].num => a = b BY <1>1 DEF CyclesOK
  <2>3. \A a, b \in C : f[a] = f[b] => a = b BY <2>2
  <2> HIDE DEF f
  <2> QED BY <2>1, <2>3, Fun_IsInj
<1> HIDE DEF T, f
<1> PICK m : m = Max(T) OBVIOUS
<1>10. m \in T /\ \A t \in T : m >= t BY <1>4, <1>5, MaxIsGreatest
<1>11. PICK top \in C : lots[top].num = m BY <1>7, <1>10
<1>12. m \in Nat \ {0} /\ lots[top].cycle = c /\ top \in DOMAIN lots BY <1>1, <1>2, <1>11
<1>13. T = 1..m
  <2>1. ASSUME NEW t \in T PROVE t \in 1..m
    <3>1. PICK j \in C : lots[j].num = t BY <1>7
    <3>2. t \in Nat \ {0} /\ m >= t BY <1>2, <1>10, <3>1
    <3> QED BY <1>12, <3>2
  <2>2. ASSUME NEW n \in 1..m PROVE n \in T
    <3>1. PICK j \in CycleLots(lots[top].cycle) : lots[j].num = n BY <1>11, <1>12 DEF CyclesOK
    <3>2. j \in C BY <1>12, <3>1
    <3> QED BY <1>6, <3>1, <3>2
  <2> QED BY <2>1, <2>2
<1>14. Cardinality(C) = m
  <2>1. Cardinality(T) = Cardinality(C) BY <1>3, <1>8, <1>9, FS_Surjection
  <2>2. Cardinality(1..m) = m BY <1>12, FS_Interval
  <2> QED BY <1>13, <2>1, <2>2
<1>15. lots[top].dep = lots[i].dep /\ m <= MaximumEntries(Config[lots[top].dep])
  BY <1>1, <1>11, <1>12 DEF CyclesOK
<1> QED BY <1>13, <1>14, <1>15 DEF T

\* At rest the cycles are numbered.
LEMMA CyclesAtRest == CycleInv => CyclesAreNumbered
<1> SUFFICES ASSUME CycleInv, torn = 0, ~stale PROVE CyclesAreNumbered BY DEF CyclesAreNumbered, Calm
<1>1. RowsOK /\ CyclesOK /\ ViewsShare BY DEF CycleInv, LedgerInv, Ledger, Cycles
<1>2. \A i \in DOMAIN lots :
         LET cycle == CycleLots(lots[i].cycle)
         IN  /\ {lots[j].num : j \in cycle} = 1..Cardinality(cycle)
             /\ Cardinality(cycle) <= MaximumEntries(Config[lots[i].dep])
  BY <1>1, CycleCounts
<1>3. \A v, w \in ToSet(openLots) : lots[v.id].dep = lots[w.id].dep
                                      => lots[v.id].cycle = lots[w.id].cycle
  BY <1>1 DEF ViewsShare, Joins, ToSet
<1> QED BY <1>2, <1>3 DEF CyclesAreNumbered

\* Between any two transactions the lots of a cycle have the numbers 1 to the last, each once,
\* and a fill that is under way has taken the next one; as long as a restart or a take-over
\* gives the broker the memory that was in use.
THEOREM CyclesInvariant == Spec /\ [][Crash \/ TakeOver => MemoryIsRebuildable]_vars => []CycleInv
<1>1. Init => CycleInv
  <2> SUFFICES ASSUME Init PROVE CycleInv OBVIOUS
  <2>1. lots = <<>> /\ openLots = <<>> /\ ~Filling(todo) BY DEF Init, Filling
  <2> QED BY <2>1, LedgerInitially, NoCycles DEF CycleInv
<1> QED BY <1>1, CycleStep, PTL DEF Spec

\* The lots of a cycle are numbered without a gap or a repetition, never past the maximum of the
\* policy, and a deployment never holds lots of two cycles, under the same condition, for every
\* configuration and tape.
THEOREM CyclesAlwaysNumbered == Spec /\ [][Crash \/ TakeOver => MemoryIsRebuildable]_vars => []CyclesAreNumbered
  BY CyclesInvariant, CyclesAtRest, PTL
=============================================================================
