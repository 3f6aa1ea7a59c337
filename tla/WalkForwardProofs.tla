------------------------- MODULE WalkForwardProofs --------------------------
(***************************************************************************)
(* The queue of a runner keeps its limit, and the rows of backtest_runs    *)
(* follow RunLifecycle: proofs for any number of runs, requests,           *)
(* containers, faults and restarts.  On top of them, the unseen data of a  *)
(* validation stay unseen and it leaves nothing running: for any number of *)
(* validations, folds and candidates.                                      *)
(***************************************************************************)
EXTENDS WalkForward, FiniteSetTheorems, TLAPS

\* The numbers the limit is about.
SlotTypes ==
    /\ futures \in [Containers -> SUBSET Runs]
    /\ \A c \in Containers : IsFiniteSet(futures[c])
    /\ reserved \in [Containers -> Nat]

SlotInv == SlotTypes /\ QueueBounded

\* The columns and the threads have the values the code writes.
RowTypes ==
    /\ status \in [Runs -> Life!Statuses] /\ cancel \in [Runs -> BOOLEAN]
    /\ job \in [Runs -> {"none", "queued", "done"} \cup AtWork \cup Dropped]
    /\ home \in [Runs -> Containers \cup {None}]
    /\ futures \in [Containers -> SUBSET Runs]
    /\ queue \in [Containers -> Seq(Runs)]
    /\ request \in [Requests -> {"idle", "reserved", "created", "answered", "refused", "failed"}]
    /\ server \in [Requests -> Containers \cup {None}]

\* A request that has written nothing yet finds its runs untouched, and no thread
\* knows the runs of a request that has not submitted them.
RequestsAreFirst ==
    \A q \in Requests, r \in Runs : r \in RequestRuns[q] =>
        /\ request[q] \in {"idle", "reserved"} => status[r] = "absent" /\ job[r] = "none"
        /\ request[q] = "created" => status[r] \in {"QUEUED", "INTERRUPTED"} /\ job[r] = "none"

\* A run that no engine has begun is QUEUED, one that has begun is RUNNING, unless
\* a starting container took it for dead; one that is read back is COMPLETE.
ThreadsKnowRows ==
    \A r \in Runs :
        /\ job[r] \in {"queued", "lease", "begin"} => status[r] \in {"QUEUED", "INTERRUPTED"}
        /\ job[r] = "symbols" => status[r] \in {"RUNNING", "INTERRUPTED"}
        /\ job[r] = "readback" => status[r] = "COMPLETE"

\* A run waits in one place of one queue, and only one runner counts it.
QueuesAreApart ==
    /\ \A c \in Containers : \A i \in 1 .. Len(queue[c]) :
        /\ job[queue[c][i]] = "queued" /\ home[queue[c][i]] = c
        /\ \A j \in 1 .. Len(queue[c]) : queue[c][i] = queue[c][j] => i = j
    /\ \A c \in Containers : \A r \in futures[c] : home[r] = c /\ job[r] # "none"

LifeInv == RowTypes /\ RequestsAreFirst /\ ThreadsKnowRows /\ QueuesAreApart

-----------------------------------------------------------------------------
(* The limit of the queue.                                                 *)

\* A request has a finite number of runs.
LEMMA SizesAreNatural == \A q \in Requests : Size(q) \in Nat
  BY RequestsCreateRuns, FS_CardinalityType DEF Size

LEMMA InitSlots == JobsInit => SlotInv
  BY FS_EmptySet, QueueLimits DEF JobsInit, SlotInv, SlotTypes, QueueBounded

\* A runner that counts no more than before keeps its limit.
LEMMA FewerSlots ==
  ASSUME SlotInv, futures' \in [Containers -> SUBSET Runs], reserved' \in [Containers -> Nat],
         \A c \in Containers : futures'[c] \subseteq futures[c] /\ reserved'[c] <= reserved[c]
  PROVE  SlotInv'
<1> SUFFICES ASSUME NEW c \in Containers
             PROVE  /\ IsFiniteSet(futures'[c])
                    /\ Cardinality(futures'[c]) + reserved'[c] <= MaxPending
  BY DEF SlotInv, SlotTypes, QueueBounded
<1>1. IsFiniteSet(futures[c]) /\ futures'[c] \in SUBSET futures[c] BY DEF SlotInv, SlotTypes
<1>2. IsFiniteSet(futures'[c]) /\ Cardinality(futures'[c]) <= Cardinality(futures[c])
  BY <1>1, FS_Subset
<1>3. Cardinality(futures'[c]) \in Nat /\ Cardinality(futures[c]) \in Nat
  BY <1>1, <1>2, FS_CardinalityType
<1>4. Cardinality(futures[c]) + reserved[c] <= MaxPending BY DEF SlotInv, QueueBounded
<1> QED BY <1>2, <1>3, <1>4, QueueLimits DEF SlotInv, SlotTypes

\* Slots that are given back, once or twice.
LEMMA ReleasedSlots ==
  ASSUME SlotInv, NEW c, NEW n \in Nat, Release(c, n), UNCHANGED futures
  PROVE  SlotInv'
<1>1. reserved' \in [Containers -> Nat] /\ \A d \in Containers : reserved'[d] <= reserved[d]
  <2> DEFINE kept == IF reserved[c] > n THEN reserved[c] - n ELSE 0
  <2>1. reserved \in [Containers -> Nat] /\ reserved' = [reserved EXCEPT ![c] = kept]
    BY DEF Release, SlotInv, SlotTypes
  <2>2. CASE c \in Containers
    <3>1. kept \in Nat /\ kept <= reserved[c] BY <2>1, <2>2
    <3> HIDE DEF kept
    <3> QED BY <2>1, <2>2, <3>1
  <2>3. CASE c \notin Containers
    <3> HIDE DEF kept
    <3>1. reserved' = reserved BY <2>1, <2>3
    <3>2. \A d \in Containers : reserved[d] <= reserved[d] BY <2>1
    <3> QED BY <2>1, <3>1, <3>2, Zenon
  <2> QED BY <2>2, <2>3
<1> QED BY <1>1, FewerSlots DEF SlotInv, SlotTypes

\* A future that is forgotten.
LEMMA ForgottenFuture ==
  ASSUME SlotInv, NEW r, Forget(r), UNCHANGED reserved
  PROVE  SlotInv'
<1>1. futures' \in [Containers -> SUBSET Runs] /\ \A d \in Containers : futures'[d] \subseteq futures[d]
  BY DEF Forget, SlotInv, SlotTypes
<1>2. \A d \in Containers : reserved'[d] <= reserved[d] BY DEF SlotInv, SlotTypes
<1> QED BY <1>1, <1>2, FewerSlots DEF SlotInv, SlotTypes

\* Neither futures nor reservations change.
LEMMA SameSlots == ASSUME SlotInv, UNCHANGED <<futures, reserved>> PROVE SlotInv'
  BY DEF SlotInv, SlotTypes, QueueBounded

\* A reservation is made only if it fits.
LEMMA ReservedSlots ==
  ASSUME SlotInv, NEW q \in Requests, NEW c \in Containers, BeginRequest(q, c)
  PROVE  SlotInv'
<1>1. CASE Fits(c, Size(q))
  <2>1. futures' = futures /\ reserved' = [reserved EXCEPT ![c] = @ + Size(q)]
    BY <1>1 DEF BeginRequest, Reserve
  <2>2. Size(q) \in Nat /\ Cardinality(futures[c]) \in Nat
    BY SizesAreNatural, FS_CardinalityType DEF SlotInv, SlotTypes
  <2>3. reserved' \in [Containers -> Nat] BY <2>1, <2>2 DEF SlotInv, SlotTypes
  <2>4. ASSUME NEW d \in Containers PROVE Cardinality(futures'[d]) + reserved'[d] <= MaxPending
    <3>1. CASE d = c BY <1>1, <2>1, <2>2, <3>1, QueueLimits DEF Fits, SlotInv, SlotTypes
    <3>2. CASE d # c BY <2>1, <3>2 DEF SlotInv, SlotTypes, QueueBounded
    <3> QED BY <3>1, <3>2
  <2> QED BY <2>1, <2>3, <2>4 DEF SlotInv, SlotTypes, QueueBounded
<1>2. CASE ~ Fits(c, Size(q)) BY <1>2, SameSlots DEF BeginRequest
<1> QED BY <1>1, <1>2

\* Trading reserved slots for futures leaves the sum, or lowers it.
LEMMA TradedSlots ==
  ASSUME SlotInv, NEW q \in Requests, NEW c, Enqueue(c, RequestRuns[q])
  PROVE  SlotInv'
<1> DEFINE R == RequestRuns[q]
<1>1. R \in SUBSET Runs /\ IsFiniteSet(R) BY RequestsCreateRuns
<1>2. /\ reserved[c] >= Cardinality(R)
      /\ reserved' = [reserved EXCEPT ![c] = @ - Cardinality(R)]
      /\ futures' = [futures EXCEPT ![c] = @ \cup R]
  BY DEF Enqueue
<1>3. CASE c \in Containers
  <2>1. /\ IsFiniteSet(futures[c]) /\ Cardinality(futures[c]) \in Nat
        /\ Cardinality(R) \in Nat /\ reserved[c] \in Nat
    BY <1>1, <1>3, FS_CardinalityType DEF SlotInv, SlotTypes
  <2>2. /\ IsFiniteSet(futures[c] \cup R)
        /\ Cardinality(futures[c] \cup R) = Cardinality(futures[c]) + Cardinality(R) - Cardinality(futures[c] \cap R)
    BY <1>1, <2>1, FS_Union
  <2>3. futures[c] \cap R \in SUBSET R OBVIOUS
  <2>4. IsFiniteSet(futures[c] \cap R) BY <1>1, <2>3, FS_Subset
  <2>5. Cardinality(futures[c] \cap R) \in Nat BY <2>4, FS_CardinalityType
  <2>6. Cardinality(futures[c] \cup R) <= Cardinality(futures[c]) + Cardinality(R) BY <2>1, <2>2, <2>5
  <2>7. SlotTypes' BY <1>1, <1>2, <1>3, <2>1, <2>2 DEF SlotInv, SlotTypes
  <2>8. ASSUME NEW d \in Containers PROVE Cardinality(futures'[d]) + reserved'[d] <= MaxPending
    <3>1. CASE d = c
      <4>1. futures'[d] = futures[c] \cup R /\ reserved'[d] = reserved[c] - Cardinality(R)
        BY <1>2, <1>3, <3>1 DEF SlotInv, SlotTypes
      <4>2. Cardinality(futures[c]) + reserved[c] <= MaxPending BY <1>3 DEF SlotInv, QueueBounded
      <4>3. Cardinality(futures[c] \cup R) \in Nat BY <2>2, FS_CardinalityType
      <4> HIDE DEF R
      <4> QED BY <2>1, <2>6, <4>1, <4>2, <4>3, QueueLimits
    <3>2. CASE d # c BY <1>2, <3>2 DEF SlotInv, SlotTypes, QueueBounded
    <3> QED BY <3>1, <3>2
  <2> QED BY <2>7, <2>8 DEF SlotInv, QueueBounded
<1>4. CASE c \notin Containers
  <2>1. futures' = futures /\ reserved' = reserved BY <1>2, <1>4 DEF SlotInv, SlotTypes
  <2> QED BY <2>1, SameSlots
<1> QED BY <1>3, <1>4

\* The steps of a request.
LEMMA RequestSlots ==
  ASSUME SlotInv, NEW q \in Requests, RequestStep(q) \/ RequestFails(q)
  PROVE  SlotInv'
<1>0. Size(q) \in Nat /\ 2 * Size(q) \in Nat BY SizesAreNatural
<1>1. CASE \E c \in Containers : AnswerExisting(q, c) BY <1>1, SameSlots DEF AnswerExisting, memory
<1>2. CASE \E c \in Containers : BeginRequest(q, c) BY <1>2, ReservedSlots
<1>3. CASE CreateRows(q)
  <2>1. futures' = futures /\ (UNCHANGED reserved \/ Release(server[q], Size(q))) BY <1>3 DEF CreateRows
  <2> QED BY <1>0, <2>1, SameSlots, ReleasedSlots
<1>4. CASE SubmitRuns(q) BY <1>4, TradedSlots DEF SubmitRuns
<1>5. CASE SubmitAfterShutdown(q) BY <1>0, <1>5, ReleasedSlots DEF SubmitAfterShutdown
<1>6. CASE RequestFails(q) BY <1>0, <1>6, ReleasedSlots DEF RequestFails
<1> QED BY <1>1, <1>2, <1>3, <1>4, <1>5, <1>6 DEF RequestStep

\* The steps of a thread.
LEMMA WorkerSlots ==
  ASSUME SlotInv, NEW r \in Runs, WorkerStep(r) \/ WorkerFault(r)
  PROVE  SlotInv'
<1>1. reserved' = reserved
  BY DEF WorkerStep, WorkerFault, EnterLease, BeginEngine, RunSymbol, CompleteRun, ReadBack, PopFuture, LeaseRefused,
         LeaseFactoryFails, EngineNotBuilt, EngineFails, Step
<1>2. UNCHANGED futures \/ Forget(r)
  BY DEF WorkerStep, WorkerFault, EnterLease, BeginEngine, RunSymbol, CompleteRun, ReadBack, PopFuture, LeaseRefused,
         LeaseFactoryFails, EngineNotBuilt, EngineFails
<1> QED BY <1>1, <1>2, SameSlots, ForgottenFuture

\* Every step of every container keeps the limit.
LEMMA NextSlots == SlotInv /\ [JobsNext]_vars => SlotInv'
<1> SUFFICES ASSUME SlotInv, [JobsNext]_vars PROVE SlotInv' OBVIOUS
<1>1. CASE UNCHANGED vars BY <1>1, SameSlots DEF vars, memory
<1>2. CASE \E q \in Requests : RequestStep(q) \/ RequestFails(q) BY <1>2, RequestSlots
<1>3. CASE \/ \E c \in Containers, r \in Runs : CancelRequest(c, r)
           \/ \E c \in Containers, k \in Keys : CancelExperiment(c, k)
  BY <1>3, SameSlots DEF CancelRequest, CancelExperiment
<1>4. CASE \E c \in Containers : Take(c) BY <1>4, SameSlots DEF Take
<1>5. CASE \E r \in Runs : WorkerStep(r) \/ WorkerFault(r) BY <1>5, WorkerSlots
<1>6. CASE \E c \in Containers : StartContainer(c) \/ StopContainer(c)
  BY <1>6, SameSlots DEF StartContainer, StopContainer
<1>7. CASE \E c \in Containers : EndProcess(c)
  <2> PICK c \in Containers : EndProcess(c) BY <1>7
  <2>1. futures' = [futures EXCEPT ![c] = {}] /\ reserved' = [reserved EXCEPT ![c] = 0] BY DEF EndProcess
  <2>2. /\ futures' \in [Containers -> SUBSET Runs] /\ reserved' \in [Containers -> Nat]
        /\ \A d \in Containers : futures'[d] \subseteq futures[d] /\ reserved'[d] <= reserved[d]
    BY <2>1 DEF SlotInv, SlotTypes
  <2> QED BY <2>2, FewerSlots
<1> QED BY <1>1, <1>2, <1>3, <1>4, <1>5, <1>6, <1>7 DEF JobsNext

\* The queue of a runner never holds more than its limit, reserved slots included: for any
\* number of requests that reserve, fail, are answered by an existing experiment or submit
\* beside each other, and for any restarts, although some paths give slots back twice.
THEOREM QueueIsBounded == JobsSpec => []QueueBounded
<1>1. SlotInv => QueueBounded BY DEF SlotInv
<1> QED BY <1>1, InitSlots, NextSlots, PTL DEF JobsSpec

-----------------------------------------------------------------------------
(* The life of a run.                                                      *)

LEMMA InitLife == JobsInit => LifeInv
<1> SUFFICES ASSUME JobsInit PROVE LifeInv OBVIOUS
<1>1. RowTypes BY DEF JobsInit, RowTypes, Life!Statuses
<1>2. RequestsAreFirst BY DEF JobsInit, RequestsAreFirst
<1>3. ThreadsKnowRows BY DEF JobsInit, ThreadsKnowRows
<1>4. QueuesAreApart BY DEF JobsInit, QueuesAreApart
<1> QED BY <1>1, <1>2, <1>3, <1>4 DEF LifeInv

\* Order lists a finite set without repeating an element.
LEMMA OrderLists ==
  ASSUME NEW R, IsFiniteSet(R)
  PROVE  /\ Order(R) \in Seq(R)
         /\ \A i, j \in 1 .. Len(Order(R)) : Order(R)[i] = Order(R)[j] => i = j
<1>1. Cardinality(R) \in Nat /\ ExistsBijection(1 .. Cardinality(R), R) BY FS_CardinalityType
<1>2. PICK f : f \in Bijection(1 .. Cardinality(R), R) BY <1>1 DEF ExistsBijection
<1>3. f \in [1 .. Cardinality(R) -> R] /\ \A i, j \in 1 .. Cardinality(R) : f[i] = f[j] => i = j
  BY <1>2 DEF Bijection, Injection, IsInjective
<1> DEFINE Lists(s) == \A i, j \in DOMAIN s : s[i] = s[j] => i = j
<1>4. \E s \in [1 .. Cardinality(R) -> R] : Lists(s)
  <2>1. DOMAIN f = 1 .. Cardinality(R) BY <1>3
  <2> QED BY <1>3, <2>1
<1>5. Order(R) = CHOOSE s \in [1 .. Cardinality(R) -> R] : Lists(s) BY DEF Order
<1>6. Order(R) \in [1 .. Cardinality(R) -> R] /\ Lists(Order(R)) BY <1>4, <1>5
<1>7. DOMAIN Order(R) = 1 .. Cardinality(R) BY <1>6
<1>8. Order(R) \in Seq(R) /\ Len(Order(R)) = Cardinality(R) BY <1>1, <1>6
<1> QED BY <1>6, <1>7, <1>8

\* A thread at work moves on: the runs of requests under way and those in the
\* queues are others.
LEMMA ThreadMoves ==
  ASSUME LifeInv, NEW r \in Runs, NEW to \in {"done"} \cup AtWork \cup Dropped, NEW outcome \in Life!Statuses,
         job[r] \in AtWork, job' = [job EXCEPT ![r] = to], status' = [status EXCEPT ![r] = outcome],
         to \in {"lease", "begin"} => outcome \in {"QUEUED", "INTERRUPTED"},
         to = "symbols" => outcome \in {"RUNNING", "INTERRUPTED"},
         to = "readback" => outcome = "COMPLETE",
         UNCHANGED <<cancel, home, queue, request, server>>, UNCHANGED futures \/ Forget(r)
  PROVE  LifeInv'
<1> USE DEF LifeInv
<1>1. futures' \in [Containers -> SUBSET Runs] /\ \A c \in Containers : futures'[c] \subseteq futures[c]
  BY DEF RowTypes, Forget
<1>2. RowTypes' BY <1>1 DEF RowTypes
<1>3. RequestsAreFirst' BY DEF RowTypes, RequestsAreFirst, AtWork
<1>4. ThreadsKnowRows' BY DEF RowTypes, ThreadsKnowRows, AtWork, Dropped
<1>5. QueuesAreApart'
  <2>1. ASSUME NEW c \in Containers, NEW i \in 1 .. Len(queue[c])
        PROVE  job'[queue[c][i]] = "queued"
    <3>1. queue[c] \in Seq(Runs) BY DEF RowTypes
    <3>2. queue[c][i] \in Runs /\ job[queue[c][i]] = "queued" BY <3>1 DEF QueuesAreApart
    <3>3. queue[c][i] # r BY <3>2 DEF AtWork
    <3> QED BY <3>2, <3>3 DEF RowTypes
  <2>2. ASSUME NEW c \in Containers, NEW x \in futures'[c] PROVE home'[x] = c /\ job'[x] # "none"
    BY <1>1 DEF RowTypes, QueuesAreApart, AtWork, Dropped
  <2> QED BY <2>1, <2>2 DEF QueuesAreApart
<1> QED BY <1>2, <1>3, <1>4, <1>5

\* What a thread does to the row of its run is a step of the run's life.
LEMMA ThreadLife ==
  ASSUME LifeInv, NEW r \in Runs, WorkerStep(r) \/ WorkerFault(r)
  PROVE  LifeInv' /\ [Life!Next]_(Life!lifeVars)
<1> USE DEF LifeInv
<1>0. status \in [Runs -> Life!Statuses] /\ status[r] \in Life!Statuses BY DEF RowTypes
<1>a. UNCHANGED <<cancel, home, queue, request, server>>
  BY DEF WorkerStep, WorkerFault, EnterLease, BeginEngine, RunSymbol, CompleteRun, ReadBack, PopFuture, LeaseRefused,
         LeaseFactoryFails, EngineNotBuilt, EngineFails, Step, requests
<1>b. UNCHANGED futures \/ Forget(r)
  BY DEF WorkerStep, WorkerFault, EnterLease, BeginEngine, RunSymbol, CompleteRun, ReadBack, PopFuture, LeaseRefused,
         LeaseFactoryFails, EngineNotBuilt, EngineFails
<1>1. CASE \E from \in AtWork, to \in {"done", "begin", "symbols", "pop"} \cup Dropped :
              /\ Step(r, from, to) /\ UNCHANGED status
              /\ to = "begin" => from = "lease"
              /\ to = "symbols" => from = "symbols"
  <2> PICK from \in AtWork, to \in {"done", "begin", "symbols", "pop"} \cup Dropped :
              /\ Step(r, from, to) /\ UNCHANGED status
              /\ to = "begin" => from = "lease"
              /\ to = "symbols" => from = "symbols"
    BY <1>1
  <2>1. job[r] = from /\ job' = [job EXCEPT ![r] = to] BY DEF Step
  <2>2. status' = [status EXCEPT ![r] = status[r]] BY <1>0
  <2>3. /\ to \in {"lease", "begin"} => status[r] \in {"QUEUED", "INTERRUPTED"}
        /\ to = "symbols" => status[r] \in {"RUNNING", "INTERRUPTED"}
    BY <2>1 DEF ThreadsKnowRows, Dropped
  <2>a. to \in {"done"} \cup AtWork \cup Dropped /\ to \notin {"lease", "readback"} /\ job[r] \in AtWork
    BY <2>1 DEF AtWork, Dropped
  <2>4. LifeInv' BY <1>0, <1>a, <1>b, <2>1, <2>2, <2>3, <2>a, ThreadMoves
  <2>5. UNCHANGED Life!lifeVars BY <1>a DEF Life!lifeVars
  <2> QED BY <2>4, <2>5
<1>2. CASE \E from \in {"lease", "symbols", "readback"}, to \in {"pop", "readback"}, outcome \in Terminal \ {"INTERRUPTED"} :
              /\ Step(r, from, to) /\ Finish(r, outcome)
              /\ from = "lease" => cancel[r] /\ outcome = "CANCELLED"
              /\ from = "readback" => outcome = "FAILED"
              /\ to = "readback" => outcome = "COMPLETE"
  <2> PICK from \in {"lease", "symbols", "readback"}, to \in {"pop", "readback"}, outcome \in Terminal \ {"INTERRUPTED"} :
              /\ Step(r, from, to) /\ Finish(r, outcome)
              /\ from = "lease" => cancel[r] /\ outcome = "CANCELLED"
              /\ from = "readback" => outcome = "FAILED"
              /\ to = "readback" => outcome = "COMPLETE"
    BY <1>2
  <2>1. /\ job[r] = from /\ job' = [job EXCEPT ![r] = to] /\ status' = [status EXCEPT ![r] = outcome]
        /\ outcome \in Life!Statuses
    BY DEF Step, Finish, Terminal, Life!Statuses, Life!Terminal
  <2>2. LifeInv' BY <1>a, <1>b, <2>1, ThreadMoves DEF AtWork
  <2>3. Life!End(r, outcome)
    BY <1>a, <2>1 DEF Life!End, Life!Terminal, Terminal, ThreadsKnowRows
  <2> QED BY <2>2, <2>3 DEF Life!Next, Life!Terminal, Terminal
<1>3. CASE BeginEngine(r)
  <2> DEFINE outcome == IF status[r] = "QUEUED" THEN "RUNNING" ELSE status[r]
  <2>1. job[r] = "begin" /\ job' = [job EXCEPT ![r] = "symbols"] /\ status' = [status EXCEPT ![r] = outcome]
    BY <1>0, <1>3 DEF BeginEngine, Step
  <2>2. status[r] \in {"QUEUED", "INTERRUPTED"} BY <2>1 DEF ThreadsKnowRows
  <2>3. outcome \in {"RUNNING", "INTERRUPTED"} /\ outcome \in Life!Statuses
    BY <2>2 DEF Life!Statuses, Life!Active, Life!Terminal
  <2>4. LifeInv' BY <1>a, <1>b, <2>1, <2>3, ThreadMoves DEF AtWork
  <2>5. CASE status[r] = "QUEUED" BY <1>a, <2>1, <2>4, <2>5 DEF Life!Next, Life!Begin
  <2>6. CASE status[r] # "QUEUED"
    <3>1. status' = status BY <1>0, <2>1, <2>6
    <3> QED BY <1>a, <2>4, <3>1 DEF Life!lifeVars
  <2> QED BY <2>5, <2>6
<1>4. ~ BeginEngine(r) => \/ \E from \in AtWork, to \in {"done", "begin", "symbols", "pop"} \cup Dropped :
                                /\ Step(r, from, to) /\ UNCHANGED status
                                /\ to = "begin" => from = "lease"
                                /\ to = "symbols" => from = "symbols"
                          \/ \E from \in {"lease", "symbols", "readback"}, to \in {"pop", "readback"}, outcome \in Terminal \ {"INTERRUPTED"} :
                                /\ Step(r, from, to) /\ Finish(r, outcome)
                                /\ from = "lease" => cancel[r] /\ outcome = "CANCELLED"
                                /\ from = "readback" => outcome = "FAILED"
                                /\ to = "readback" => outcome = "COMPLETE"
  <2>1. CASE EnterLease(r) BY <2>1 DEF EnterLease, AtWork, Terminal
  <2>2. CASE RunSymbol(r) BY <2>2 DEF RunSymbol, AtWork, Terminal
  <2>3. CASE CompleteRun(r) BY <2>3 DEF CompleteRun, AtWork, Terminal
  <2>4. CASE PopFuture(r) \/ ReadBack(r) BY <2>4 DEF PopFuture, ReadBack, AtWork
  <2>5. CASE LeaseRefused(r) BY <2>5 DEF LeaseRefused, AtWork, Dropped
  <2>6. CASE LeaseFactoryFails(r) BY <2>6 DEF LeaseFactoryFails, AtWork, Dropped
  <2>7. CASE EngineNotBuilt(r) BY <2>7 DEF EngineNotBuilt, AtWork, Dropped
  <2>8. CASE EngineFails(r) BY <2>8 DEF EngineFails, AtWork, Dropped, Terminal
  <2> QED BY <2>1, <2>2, <2>3, <2>4, <2>5, <2>6, <2>7, <2>8 DEF WorkerStep, WorkerFault
<1> QED BY <1>1, <1>2, <1>3, <1>4

\* A step that touches no row, thread, queue or future.
LEMMA SameLife ==
  ASSUME LifeInv, UNCHANGED <<status, job, home, futures, queue>>, cancel' \in [Runs -> BOOLEAN],
         request' \in [Requests -> {"idle", "reserved", "created", "answered", "refused", "failed"}],
         server' \in [Requests -> Containers \cup {None}],
         \A q \in Requests : request'[q] \in {"idle", "reserved", "created"} =>
            \/ request'[q] = request[q]
            \/ request'[q] = "reserved" /\ request[q] = "idle"
  PROVE  LifeInv'
<1> USE DEF LifeInv
<1>1. RowTypes' BY DEF RowTypes
<1>2. RequestsAreFirst' BY DEF RequestsAreFirst
<1>3. ThreadsKnowRows' BY DEF ThreadsKnowRows
<1>4. QueuesAreApart' BY DEF QueuesAreApart
<1> QED BY <1>1, <1>2, <1>3, <1>4

\* The rows of a request are inserted where there was none.
LEMMA CreateLife ==
  ASSUME LifeInv, NEW q \in Requests, CreateRows(q)
  PROVE  LifeInv' /\ [Life!Next]_(Life!lifeVars)
<1> USE DEF LifeInv
<1>1. /\ UNCHANGED <<cancel, job, home, futures, queue, server>> /\ request[q] = "reserved"
      /\ cancel' \in [Runs -> BOOLEAN] /\ server' \in [Requests -> Containers \cup {None}]
  BY DEF CreateRows, RowTypes
<1>2. CASE Key[q] # NoKey /\ experiment[Key[q]] # None
  <2>1. status' = status /\ request' = [request EXCEPT ![q] = "answered"] BY <1>2 DEF CreateRows
  <2>2. request' \in [Requests -> {"idle", "reserved", "created", "answered", "refused", "failed"}]
    BY <2>1 DEF RowTypes
  <2>3. \A p \in Requests : request'[p] \in {"idle", "reserved", "created"} => request'[p] = request[p]
    BY <2>1 DEF RowTypes
  <2>4. LifeInv' BY <1>1, <2>1, <2>2, <2>3, SameLife
  <2> QED BY <1>1, <2>1, <2>4 DEF Life!lifeVars
<1>3. CASE ~ (Key[q] # NoKey /\ experiment[Key[q]] # None)
  <2>1. /\ status' = [r \in Runs |-> IF r \in RequestRuns[q] THEN "QUEUED" ELSE status[r]]
        /\ request' = [request EXCEPT ![q] = "created"]
    BY <1>3 DEF CreateRows
  <2>2. \A r \in Runs : r \in RequestRuns[q] => status[r] = "absent" /\ job[r] = "none"
    BY <1>1 DEF RequestsAreFirst
  <2>3. RowTypes' BY <1>1, <2>1 DEF RowTypes, Life!Statuses, Life!Active
  <2>4. RequestsAreFirst'
    BY <1>1, <2>1, <2>2, RunsAreFresh, RequestsCreateRuns DEF RequestsAreFirst, RowTypes
  <2>5. ThreadsKnowRows' BY <1>1, <2>1, <2>2 DEF ThreadsKnowRows
  <2>6. QueuesAreApart' BY <1>1 DEF QueuesAreApart
  <2>7. Life!Create BY <1>1, <2>1, <2>2, <2>3 DEF Life!Create, RowTypes
  <2> QED BY <2>3, <2>4, <2>5, <2>6, <2>7 DEF Life!Next
<1> QED BY <1>2, <1>3

\* The elements of two sequences in one.
LEMMA Appended ==
  ASSUME NEW S, NEW a \in Seq(S), NEW b \in Seq(S)
  PROVE  \A k \in 1 .. Len(a \o b) : \/ k \in 1 .. Len(a) /\ (a \o b)[k] = a[k]
                                    \/ /\ k - Len(a) \in 1 .. Len(b) /\ k > Len(a)
                                       /\ (a \o b)[k] = b[k - Len(a)]
  OBVIOUS

\* The runs of a request enter the queue behind those that wait.
LEMMA SubmitLife ==
  ASSUME LifeInv, NEW q \in Requests, SubmitRuns(q)
  PROVE  LifeInv'
<1> USE DEF LifeInv
<1> DEFINE R == RequestRuns[q]
           c == server[q]
<1>0. R \in SUBSET Runs /\ IsFiniteSet(R) BY RequestsCreateRuns
<1>1. /\ UNCHANGED <<status, cancel, server>> /\ request[q] = "created"
      /\ request' = [request EXCEPT ![q] = "answered"]
      /\ futures' = [futures EXCEPT ![c] = @ \cup R]
      /\ queue' = [queue EXCEPT ![c] = @ \o Order(R)]
      /\ job' = [r \in Runs |-> IF r \in R THEN "queued" ELSE job[r]]
      /\ home' = [r \in Runs |-> IF r \in R THEN c ELSE home[r]]
  BY DEF SubmitRuns, Enqueue
<1>2. \A r \in R : status[r] \in {"QUEUED", "INTERRUPTED"} /\ job[r] = "none"
  BY <1>0, <1>1 DEF RequestsAreFirst
<1>3. Order(R) \in Seq(R) /\ \A i, j \in 1 .. Len(Order(R)) : Order(R)[i] = Order(R)[j] => i = j
  BY <1>0, OrderLists
<1>4. RequestsAreFirst'
  BY <1>0, <1>1, RunsAreFresh, RequestsCreateRuns DEF RequestsAreFirst, RowTypes
<1>5. ThreadsKnowRows' BY <1>1, <1>2 DEF ThreadsKnowRows
<1>6. RowTypes'
  <2>0. c \in Containers \cup {None} BY DEF RowTypes
  <2>1. Order(R) \in Seq(Runs) BY <1>0, <1>3
  <2>2. queue' \in [Containers -> Seq(Runs)]
    <3>1. queue \in [Containers -> Seq(Runs)] BY DEF RowTypes
    <3>2. c \in Containers => queue[c] \o Order(R) \in Seq(Runs) BY <2>1, <3>1
    <3> HIDE DEF R, c
    <3> QED BY <1>1, <3>1, <3>2
  <2>3. futures' \in [Containers -> SUBSET Runs] BY <1>0, <1>1 DEF RowTypes
  <2> QED BY <1>1, <2>0, <2>2, <2>3 DEF RowTypes
<1>7. QueuesAreApart'
  <2>1. ASSUME NEW d \in Containers, NEW i \in 1 .. Len(queue'[d])
        PROVE  /\ job'[queue'[d][i]] = "queued" /\ home'[queue'[d][i]] = d
               /\ \A j \in 1 .. Len(queue'[d]) : queue'[d][i] = queue'[d][j] => i = j
    <3>0. queue[d] \in Seq(Runs) BY DEF RowTypes
    <3>1. \A k \in 1 .. Len(queue[d]) : /\ queue[d][k] \in Runs \ R
                                        /\ job[queue[d][k]] = "queued" /\ home[queue[d][k]] = d
                                        /\ \A l \in 1 .. Len(queue[d]) : queue[d][k] = queue[d][l] => k = l
      BY <1>2, <3>0 DEF QueuesAreApart
    <3>2. CASE d # c
      <4>1. queue'[d] = queue[d] BY <1>1, <3>2 DEF RowTypes
      <4> HIDE DEF R, c
      <4> QED BY <1>1, <3>1, <4>1
    <3>3. CASE d = c
      <4>1. queue'[d] = queue[d] \o Order(R) BY <1>1, <3>3 DEF RowTypes
      <4> DEFINE m == Len(queue[d])
                 s == queue[d] \o Order(R)
      <4>2. m \in Nat /\ Len(Order(R)) \in Nat /\ Len(s) = m + Len(Order(R)) BY <1>3, <3>0
      <4>3. \A k \in 1 .. Len(s) : \/ k \in 1 .. m /\ s[k] = queue[d][k]
                                   \/ /\ k - m \in 1 .. Len(Order(R)) /\ s[k] = Order(R)[k - m]
                                      /\ k > m /\ s[k] \in R
        <5>1. Order(R) \in Seq(Runs) BY <1>0, <1>3
        <5>2. \A k \in 1 .. Len(Order(R)) : Order(R)[k] \in R BY <1>3
        <5> HIDE DEF R
        <5> QED BY <3>0, <4>2, <5>1, <5>2, Appended
      <4> HIDE DEF R, c, s, m
      <4>4. job'[s[i]] = "queued" /\ home'[s[i]] = d
        <5>1. i \in 1 .. Len(s) BY <4>1 DEF s
        <5>2. CASE i \in 1 .. m /\ s[i] = queue[d][i] BY <1>1, <3>1, <5>2 DEF m
        <5>3. CASE s[i] \in R BY <1>0, <1>1, <3>3, <5>3
        <5> QED BY <4>3, <5>1, <5>2, <5>3
      <4>5. ASSUME NEW j \in 1 .. Len(s), s[i] = s[j] PROVE i = j
        <5>1. i \in 1 .. Len(s) BY <4>1 DEF s
        <5>2. CASE i \in 1 .. m /\ j \in 1 .. m
          <6>1. s[i] = queue[d][i] BY <4>2, <4>3, <5>1, <5>2
          <6>2. s[j] = queue[d][j] BY <4>2, <4>3, <4>5, <5>2
          <6>3. queue[d][i] = queue[d][j] BY <4>5, <6>1, <6>2
          <6>4. i \in 1 .. Len(queue[d]) /\ j \in 1 .. Len(queue[d]) BY <5>2 DEF m
          <6> QED BY <3>1, <6>3, <6>4
        <5>3. CASE i > m /\ j > m BY <1>3, <4>2, <4>3, <4>5, <5>1, <5>3
        <5>4. ASSUME NEW k \in 1 .. Len(s), k \in 1 .. m PROVE s[k] \notin R
          <6>1. s[k] = queue[d][k] BY <4>2, <4>3, <5>4
          <6> QED BY <3>1, <5>4, <6>1 DEF m
        <5>5. ASSUME NEW k \in 1 .. Len(s), k > m PROVE s[k] \in R BY <4>2, <4>3, <5>5
        <5>6. CASE i \in 1 .. m /\ j > m BY <4>5, <5>1, <5>4, <5>5, <5>6
        <5>7. CASE i > m /\ j \in 1 .. m BY <4>5, <5>1, <5>4, <5>5, <5>7
        <5> QED BY <4>2, <5>1, <5>2, <5>3, <5>6, <5>7
      <4> QED BY <4>1, <4>4, <4>5 DEF s
    <3> QED BY <3>2, <3>3
  <2>2. ASSUME NEW d \in Containers, NEW r \in futures'[d] PROVE home'[r] = d /\ job'[r] # "none"
    <3>0. futures[d] \in SUBSET Runs BY DEF RowTypes
    <3>1. \A x \in futures[d] : home[x] = d /\ job[x] # "none" BY DEF QueuesAreApart
    <3>2. r \in futures[d] \/ (d = c /\ r \in R) BY <1>1 DEF RowTypes
    <3> HIDE DEF R, c
    <3> QED BY <1>0, <1>1, <1>2, <3>0, <3>1, <3>2
  <2> QED BY <2>1, <2>2 DEF QueuesAreApart
<1> QED BY <1>4, <1>5, <1>6, <1>7

\* The other steps of a request touch its own state and the reservations.
LEMMA RequestLife ==
  ASSUME LifeInv, NEW q \in Requests, RequestStep(q) \/ RequestFails(q)
  PROVE  LifeInv' /\ [Life!Next]_(Life!lifeVars)
<1>1. CASE \/ \E c \in Containers : AnswerExisting(q, c) \/ BeginRequest(q, c)
           \/ SubmitAfterShutdown(q) \/ RequestFails(q)
  <2>1. UNCHANGED <<status, cancel, job, home, futures, queue>>
    BY <1>1 DEF AnswerExisting, BeginRequest, SubmitAfterShutdown, RequestFails, memory, rows
  <2>2. \E to \in {"reserved", "answered", "refused", "failed"} :
            request' = [request EXCEPT ![q] = to] /\ (to = "reserved" => request[q] = "idle")
    BY <1>1 DEF AnswerExisting, BeginRequest, SubmitAfterShutdown, RequestFails
  <2>3. server' = server \/ \E c \in Containers : server' = [server EXCEPT ![q] = c]
    BY <1>1 DEF AnswerExisting, BeginRequest, SubmitAfterShutdown, RequestFails
  <2>4. /\ request' \in [Requests -> {"idle", "reserved", "created", "answered", "refused", "failed"}]
        /\ server' \in [Requests -> Containers \cup {None}] /\ cancel' \in [Runs -> BOOLEAN]
    BY <2>1, <2>2, <2>3 DEF LifeInv, RowTypes
  <2>5. \A p \in Requests : request'[p] \in {"idle", "reserved", "created"} =>
            request'[p] = request[p] \/ (request'[p] = "reserved" /\ request[p] = "idle")
    BY <2>2 DEF LifeInv, RowTypes
  <2>6. LifeInv' BY <2>1, <2>4, <2>5, SameLife
  <2> QED BY <2>1, <2>6 DEF Life!lifeVars
<1>2. CASE CreateRows(q) BY <1>2, CreateLife
<1>3. CASE SubmitRuns(q)
  <2>1. UNCHANGED Life!lifeVars BY <1>3 DEF SubmitRuns, Life!lifeVars
  <2> QED BY <1>3, <2>1, SubmitLife
<1> QED BY <1>1, <1>2, <1>3 DEF RequestStep

\* A cancel sets flags of active rows.
LEMMA CancelLife ==
  ASSUME LifeInv, \/ \E c \in Containers, r \in Runs : CancelRequest(c, r)
                  \/ \E c \in Containers, k \in Keys : CancelExperiment(c, k)
  PROVE  LifeInv' /\ [Life!Next]_(Life!lifeVars)
<1>1. /\ UNCHANGED <<status, job, home, futures, queue, request, server>>
      /\ \E R : cancel' = [r \in Runs |-> cancel[r] \/ (r \in R /\ status[r] \in Active)]
  BY DEF CancelRequest, CancelExperiment, CancelRuns, requests
<1>2. /\ cancel' \in [Runs -> BOOLEAN]
      /\ \A r \in Runs : cancel'[r] = cancel[r] \/ (cancel'[r] /\ status[r] \in Active)
  <2>1. PICK R : cancel' = [r \in Runs |-> cancel[r] \/ (r \in R /\ status[r] \in Active)] BY <1>1
  <2>2. cancel \in [Runs -> BOOLEAN] BY DEF LifeInv, RowTypes
  <2> QED BY <2>1, <2>2, Zenon
<1>3. LifeInv' BY <1>1, <1>2, SameLife DEF LifeInv, RowTypes
<1>4. Life!AskCancel BY <1>1, <1>2 DEF Life!AskCancel, Life!Active, Active
<1> QED BY <1>3, <1>4 DEF Life!Next

\* A thread takes the first run of the queue, which waits nowhere else.
LEMMA TakeLife == ASSUME LifeInv, NEW c \in Containers, Take(c) PROVE LifeInv'
<1> USE DEF LifeInv
<1> DEFINE x == Head(queue[c])
<1>1. /\ UNCHANGED <<status, cancel, home, futures, request, server>>
      /\ queue[c] # <<>> /\ job' = [job EXCEPT ![x] = "lease"]
      /\ queue' = [queue EXCEPT ![c] = Tail(@)]
  BY DEF Take, requests
<1>2. queue \in [Containers -> Seq(Runs)] /\ queue[c] \in Seq(Runs) BY DEF RowTypes
<1>3. Len(queue[c]) \in Nat \ {0} /\ x = queue[c][1] /\ x \in Runs BY <1>1, <1>2
<1>4. job[x] = "queued" /\ home[x] = c BY <1>3 DEF QueuesAreApart
<1>5. /\ Tail(queue[c]) \in Seq(Runs) /\ Len(Tail(queue[c])) = Len(queue[c]) - 1
      /\ \A i \in 1 .. Len(Tail(queue[c])) : Tail(queue[c])[i] = queue[c][i + 1]
  BY <1>1, <1>2
<1> HIDE DEF x
<1>6. RowTypes' BY <1>1, <1>2, <1>5 DEF RowTypes, AtWork
<1>7. RequestsAreFirst' BY <1>1, <1>3, <1>4 DEF RequestsAreFirst, RowTypes
<1>8. ThreadsKnowRows' BY <1>1, <1>3, <1>4 DEF ThreadsKnowRows, RowTypes
<1>9. QueuesAreApart'
  <2>1. ASSUME NEW d \in Containers, NEW i \in 1 .. Len(queue'[d])
        PROVE  /\ job'[queue'[d][i]] = "queued" /\ home'[queue'[d][i]] = d
               /\ \A j \in 1 .. Len(queue'[d]) : queue'[d][i] = queue'[d][j] => i = j
    <3>1. CASE d = c
      <4>1. queue'[d] = Tail(queue[c]) BY <1>1, <1>2, <3>1
      <4>2. i \in Nat /\ i + 1 \in 1 .. Len(queue[c]) /\ i + 1 # 1 BY <1>3, <1>5, <4>1
      <4>3. queue'[d][i] = queue[c][i + 1] BY <1>5, <4>1
      <4>4. queue[c][i + 1] # x /\ queue[c][i + 1] \in Runs
        BY <1>2, <1>3, <4>2 DEF QueuesAreApart
      <4>5. job[queue[c][i + 1]] = "queued" /\ home[queue[c][i + 1]] = d
        BY <3>1, <4>2 DEF QueuesAreApart
      <4>6. \A j \in 1 .. Len(queue'[d]) : queue'[d][i] = queue'[d][j] => i = j
        <5> SUFFICES ASSUME NEW j \in 1 .. Len(queue'[d]), queue'[d][i] = queue'[d][j] PROVE i = j OBVIOUS
        <5>1. j \in Nat /\ j + 1 \in 1 .. Len(queue[c]) /\ queue'[d][j] = queue[c][j + 1] BY <1>3, <1>5, <4>1
        <5>2. \A k, l \in 1 .. Len(queue[c]) : queue[c][k] = queue[c][l] => k = l BY DEF QueuesAreApart
        <5>3. queue[c][i + 1] = queue[c][j + 1] BY <4>3, <5>1
        <5>4. i + 1 = j + 1 BY <4>2, <5>1, <5>2, <5>3
        <5> QED BY <4>2, <5>1, <5>4
      <4> QED BY <1>1, <4>3, <4>4, <4>5, <4>6 DEF RowTypes
    <3>2. CASE d # c
      <4>1. queue'[d] = queue[d] /\ queue[d] \in Seq(Runs) BY <1>1, <1>2, <3>2
      <4>2. /\ queue[d][i] \in Runs /\ job[queue[d][i]] = "queued" /\ home[queue[d][i]] = d
            /\ \A j \in 1 .. Len(queue[d]) : queue[d][i] = queue[d][j] => i = j
        BY <4>1 DEF QueuesAreApart
      <4>3. queue[d][i] # x BY <1>4, <3>2, <4>2
      <4> QED BY <1>1, <4>1, <4>2, <4>3 DEF RowTypes
    <3> QED BY <3>1, <3>2
  <2>2. ASSUME NEW d \in Containers, NEW r \in futures'[d] PROVE home'[r] = d /\ job'[r] # "none"
    BY <1>1 DEF QueuesAreApart, RowTypes
  <2> QED BY <2>1, <2>2 DEF QueuesAreApart
<1> QED BY <1>6, <1>7, <1>8, <1>9

\* A starting container writes INTERRUPTED over every active row, also of runs at work.
LEMMA StartLife ==
  ASSUME LifeInv, NEW c \in Containers, StartContainer(c)
  PROVE  LifeInv' /\ Life!Interrupt
<1> USE DEF LifeInv
<1>1. /\ UNCHANGED <<cancel, futures, queue, job, home, request, server>>
      /\ status' = [r \in Runs |-> IF status[r] \in Active THEN "INTERRUPTED" ELSE status[r]]
  BY DEF StartContainer, InterruptStale, requests
<1>2. RowTypes' BY <1>1 DEF RowTypes, Life!Statuses, Life!Terminal
<1>3. RequestsAreFirst' BY <1>1 DEF RequestsAreFirst, Active
<1>4. ThreadsKnowRows' BY <1>1 DEF ThreadsKnowRows, Active
<1>5. QueuesAreApart' BY <1>1 DEF QueuesAreApart
<1>6. Life!Interrupt BY <1>1 DEF Life!Interrupt, Life!Active, Active
<1> QED BY <1>2, <1>3, <1>4, <1>5, <1>6

\* A stop, or the end of a process, drops the runs of its own queue and touches no row.
LEMMA EndLife ==
  ASSUME LifeInv, NEW c \in Containers, StopContainer(c) \/ EndProcess(c)
  PROVE  LifeInv' /\ UNCHANGED <<status, cancel>>
<1> USE DEF LifeInv
<1>1. /\ UNCHANGED <<status, cancel, home, server>> /\ queue' = [queue EXCEPT ![c] = <<>>]
      /\ UNCHANGED futures \/ futures' = [futures EXCEPT ![c] = {}]
  BY DEF StopContainer, EndProcess, requests
<1>2. \E D \in SUBSET Runs : /\ \A r \in D : home[r] = c /\ job[r] # "none"
                             /\ job' = [r \in Runs |-> IF r \in D THEN "dropped" ELSE job[r]]
  <2>1. CASE StopContainer(c)
    <3> DEFINE D == {r \in Runs : home[r] = c /\ job[r] = "queued"}
    <3>1. job' = [r \in Runs |-> IF r \in D THEN "dropped" ELSE job[r]] BY <2>1 DEF StopContainer
    <3>2. D \in SUBSET Runs /\ \A r \in D : home[r] = c /\ job[r] # "none" OBVIOUS
    <3> QED BY <3>1, <3>2
  <2>2. CASE EndProcess(c)
    <3>1. job' = [r \in Runs |-> IF r \in futures[c] THEN "dropped" ELSE job[r]] BY <2>2 DEF EndProcess
    <3>2. futures[c] \in SUBSET Runs /\ \A r \in futures[c] : home[r] = c /\ job[r] # "none"
      BY DEF RowTypes, QueuesAreApart
    <3> QED BY <3>1, <3>2
  <2> QED BY <2>1, <2>2
<1>3. PICK D \in SUBSET Runs : /\ \A r \in D : home[r] = c /\ job[r] # "none"
                               /\ job' = [r \in Runs |-> IF r \in D THEN "dropped" ELSE job[r]]
  BY <1>2
<1>4. request' \in [Requests -> {"idle", "reserved", "created", "answered", "refused", "failed"}]
      /\ \A q \in Requests : request'[q] = request[q] \/ request'[q] = "failed"
  BY DEF StopContainer, EndProcess, requests, RowTypes
<1>5. RowTypes'
  <2>1. queue' \in [Containers -> Seq(Runs)] BY <1>1 DEF RowTypes
  <2>2. futures' \in [Containers -> SUBSET Runs] BY <1>1 DEF RowTypes
  <2>3. job' \in [Runs -> {"none", "queued", "done"} \cup AtWork \cup Dropped] BY <1>3 DEF RowTypes, Dropped
  <2> QED BY <1>1, <1>4, <2>1, <2>2, <2>3 DEF RowTypes
<1>6. RequestsAreFirst' BY <1>1, <1>3, <1>4 DEF RequestsAreFirst
<1>7. ThreadsKnowRows' BY <1>1, <1>3 DEF ThreadsKnowRows
<1>8. QueuesAreApart'
  <2>1. ASSUME NEW d \in Containers, NEW i \in 1 .. Len(queue'[d])
        PROVE  /\ job'[queue'[d][i]] = "queued" /\ home'[queue'[d][i]] = d
               /\ \A j \in 1 .. Len(queue'[d]) : queue'[d][i] = queue'[d][j] => i = j
    <3>1. d # c BY <1>1 DEF RowTypes
    <3>2. queue'[d] = queue[d] /\ queue[d] \in Seq(Runs) BY <1>1, <3>1 DEF RowTypes
    <3>3. /\ queue[d][i] \in Runs /\ job[queue[d][i]] = "queued" /\ home[queue[d][i]] = d
          /\ \A j \in 1 .. Len(queue[d]) : queue[d][i] = queue[d][j] => i = j
      BY <3>2 DEF QueuesAreApart
    <3>4. queue[d][i] \notin D BY <1>3, <3>1, <3>3
    <3> QED BY <1>1, <1>3, <3>2, <3>3, <3>4
  <2>2. ASSUME NEW d \in Containers, NEW r \in futures'[d] PROVE home'[r] = d /\ job'[r] # "none"
    <3>1. r \in futures[d] /\ r \in Runs BY <1>1 DEF RowTypes
    <3> QED BY <1>1, <1>3, <3>1 DEF QueuesAreApart
  <2> QED BY <2>1, <2>2 DEF QueuesAreApart
<1> QED BY <1>1, <1>5, <1>6, <1>7, <1>8

\* Every step keeps the invariant, and is a step of the life of the rows or none.
LEMMA NextLife == LifeInv /\ [JobsNext]_vars => LifeInv' /\ [Life!Next]_(Life!lifeVars)
<1> SUFFICES ASSUME LifeInv, [JobsNext]_vars PROVE LifeInv' /\ [Life!Next]_(Life!lifeVars) OBVIOUS
<1>1. CASE UNCHANGED vars
  <2>1. UNCHANGED <<status, cancel, job, home, futures, queue, request, server>>
    BY <1>1 DEF vars, rows, memory, requests
  <2>2. LifeInv' BY <2>1, SameLife DEF LifeInv, RowTypes
  <2> QED BY <2>1, <2>2 DEF Life!lifeVars
<1>2. CASE \E q \in Requests : RequestStep(q) \/ RequestFails(q) BY <1>2, RequestLife
<1>3. CASE \/ \E c \in Containers, r \in Runs : CancelRequest(c, r)
           \/ \E c \in Containers, k \in Keys : CancelExperiment(c, k)
  BY <1>3, CancelLife
<1>4. CASE \E c \in Containers : Take(c)
  <2>1. UNCHANGED Life!lifeVars BY <1>4 DEF Take, Life!lifeVars
  <2> QED BY <1>4, <2>1, TakeLife
<1>5. CASE \E r \in Runs : WorkerStep(r) \/ WorkerFault(r) BY <1>5, ThreadLife
<1>6. CASE \E c \in Containers : StartContainer(c) BY <1>6, StartLife DEF Life!Next
<1>7. CASE \E c \in Containers : StopContainer(c) \/ EndProcess(c) BY <1>7, EndLife DEF Life!lifeVars
<1> QED BY <1>1, <1>2, <1>3, <1>4, <1>5, <1>6, <1>7 DEF JobsNext

\* Threads and requests agree with the rows: no thread works on a row that another thread,
\* request or container has ended, except that a starting container may have declared
\* the run dead; between the commit of COMPLETE and the end of its readback a thread still
\* holds the row it completed.
THEOREM LifeInvariant == JobsSpec => []LifeInv
  BY InitLife, NextLife, PTL DEF JobsSpec

\* The queue implements the life of a run: whatever requests, runners, faults, cancels and
\* overlapping containers do, the rows of backtest_runs take only the steps of RunLifecycle. A
\* final status gives way there in two cases only: the run taken for dead that its own thread
\* brings to an end, and the completed one that turns FAILED when it cannot be read back.
THEOREM JobsImplementLifecycle == JobsSpec => ImplementsLifecycle
<1>1. JobsInit => Life!Init BY DEF JobsInit, Life!Init
<1> QED BY <1>1, InitLife, NextLife, PTL DEF JobsSpec, ImplementsLifecycle, Life!Spec
-----------------------------------------------------------------------------
(* The slots of a runner and who holds them.                               *)

\* A thread holds its future while it waits or works; one whose lease could not be built keeps it.
Holding == {"queued", "leaked"} \cup AtWork

\* A runner counts every run that waits or works; while it serves it counts no other, and nothing once it is gone.
FuturesAreCounted ==
    /\ process \in [Containers -> {"down", "up", "stopping"}]
    /\ \A c \in Containers, r \in Runs :
        /\ home[r] = c /\ job[r] \in Holding => r \in futures[c]
        /\ process[c] = "up" /\ r \in futures[c] => job[r] \in Holding
        /\ process[c] = "down" => r \notin futures[c]

LEMMA InitFutures == JobsInit => FuturesAreCounted
  BY DEF JobsInit, FuturesAreCounted, Holding, AtWork

\* A thread that goes on stays counted; one that ends, or drops its run, is forgotten.
LEMMA ThreadMoved ==
  ASSUME NEW r \in Runs, WorkerStep(r) \/ WorkerFault(r)
  PROVE  /\ job[r] \in AtWork /\ UNCHANGED <<home, process, reserved, request, server, experiment>>
         /\ \/ UNCHANGED futures /\ \E to \in AtWork \cup {"leaked"} : job' = [job EXCEPT ![r] = to]
            \/ Forget(r) /\ \E to \in {"done", "dropped"} : job' = [job EXCEPT ![r] = to]
<1> USE DEF Step, AtWork
<1>1. CASE EnterLease(r) BY <1>1 DEF EnterLease, requests
<1>2. CASE BeginEngine(r) BY <1>2 DEF BeginEngine, requests
<1>3. CASE RunSymbol(r) BY <1>3 DEF RunSymbol, requests
<1>4. CASE CompleteRun(r) BY <1>4 DEF CompleteRun, requests
<1>5. CASE PopFuture(r) \/ ReadBack(r) BY <1>5 DEF PopFuture, ReadBack, requests
<1>6. CASE LeaseRefused(r) BY <1>6 DEF LeaseRefused, requests
<1>7. CASE LeaseFactoryFails(r) BY <1>7 DEF LeaseFactoryFails, requests
<1>8. CASE EngineNotBuilt(r) BY <1>8 DEF EngineNotBuilt, requests
<1>9. CASE EngineFails(r) BY <1>9 DEF EngineFails, requests
<1> QED BY <1>1, <1>2, <1>3, <1>4, <1>5, <1>6, <1>7, <1>8, <1>9 DEF WorkerStep, WorkerFault

\* Nothing a runner counts changes.
LEMMA SameFutures ==
  ASSUME FuturesAreCounted, UNCHANGED <<futures, home, job, process>>
  PROVE  FuturesAreCounted'
  BY DEF FuturesAreCounted

LEMMA ThreadFutures ==
  ASSUME LifeInv, FuturesAreCounted, NEW r \in Runs, WorkerStep(r) \/ WorkerFault(r)
  PROVE  FuturesAreCounted'
<1>0. /\ job \in [Runs -> {"none", "queued", "done"} \cup AtWork \cup Dropped]
      /\ futures \in [Containers -> SUBSET Runs]
  BY DEF LifeInv, RowTypes
<1>1. job[r] \in AtWork /\ home' = home /\ process' = process BY ThreadMoved
<1>2. ASSUME NEW c \in Containers, NEW x \in futures[c] PROVE home[x] = c BY DEF LifeInv, QueuesAreApart
<1>3. CASE UNCHANGED futures /\ \E to \in AtWork \cup {"leaked"} : job' = [job EXCEPT ![r] = to]
  BY <1>0, <1>1, <1>3 DEF FuturesAreCounted, Holding
<1>4. CASE Forget(r) /\ \E to \in {"done", "dropped"} : job' = [job EXCEPT ![r] = to]
  <2>1. \A c \in Containers : futures'[c] = IF home[r] = c THEN futures[c] \ {r} ELSE futures[c]
    BY <1>0, <1>4 DEF Forget
  <2>2. PICK to \in {"done", "dropped"} : job' = [job EXCEPT ![r] = to] BY <1>4
  <2>3. ASSUME NEW c \in Containers, NEW x \in Runs
        PROVE  /\ home'[x] = c /\ job'[x] \in Holding => x \in futures'[c]
               /\ process'[c] = "up" /\ x \in futures'[c] => job'[x] \in Holding
               /\ process'[c] = "down" => x \notin futures'[c]
    <3>1. job'[r] \notin Holding BY <1>0, <2>2 DEF Holding, AtWork
    <3>2. x # r => job'[x] = job[x] BY <1>0, <2>2
    <3>3. r \notin futures'[c] BY <1>2, <2>1
    <3> QED BY <1>1, <2>1, <3>1, <3>2, <3>3 DEF FuturesAreCounted
  <2> QED BY <1>1, <2>3 DEF FuturesAreCounted
<1> QED BY <1>3, <1>4, ThreadMoved

\* The runs of a request are in no queue before they are submitted.
LEMMA SubmitFutures ==
  ASSUME LifeInv, FuturesAreCounted, NEW q \in Requests, SubmitRuns(q)
  PROVE  FuturesAreCounted'
<1> DEFINE R == RequestRuns[q]
           c == server[q]
<1>0. R \in SUBSET Runs BY RequestsCreateRuns
<1>1. /\ futures' = [futures EXCEPT ![c] = @ \cup R] /\ process' = process /\ process[c] = "up"
      /\ job' = [x \in Runs |-> IF x \in R THEN "queued" ELSE job[x]]
      /\ home' = [x \in Runs |-> IF x \in R THEN c ELSE home[x]]
  BY DEF SubmitRuns, Enqueue
<1>2. \A x \in R : job[x] = "none" BY <1>0 DEF SubmitRuns, LifeInv, RequestsAreFirst
<1>3. futures \in [Containers -> SUBSET Runs] BY DEF LifeInv, RowTypes
<1> HIDE DEF R, c
<1>4. ASSUME NEW d \in Containers, NEW x \in futures[d] PROVE x \notin R
  BY <1>2 DEF LifeInv, QueuesAreApart
<1>5. ASSUME NEW d \in Containers PROVE futures'[d] = IF d = c THEN futures[d] \cup R ELSE futures[d]
  BY <1>1, <1>3
<1>6. process \in [Containers -> {"down", "up", "stopping"}] BY DEF FuturesAreCounted
<1>7. ASSUME NEW d \in Containers, NEW x \in Runs
      PROVE  /\ home'[x] = d /\ job'[x] \in Holding => x \in futures'[d]
             /\ process'[d] = "up" /\ x \in futures'[d] => job'[x] \in Holding
             /\ process'[d] = "down" => x \notin futures'[d]
  <2>1. CASE x \in R BY <1>1, <1>4, <1>5, <2>1 DEF Holding
  <2>2. CASE x \notin R
    <3>1. job'[x] = job[x] /\ home'[x] = home[x] /\ (x \in futures'[d] <=> x \in futures[d]) BY <1>1, <1>5, <2>2
    <3> QED BY <1>1, <3>1 DEF FuturesAreCounted
  <2> QED BY <2>1, <2>2
<1> QED BY <1>1, <1>6, <1>7 DEF FuturesAreCounted

LEMMA NextFutures == LifeInv /\ FuturesAreCounted /\ [JobsNext]_vars => FuturesAreCounted'
<1> SUFFICES ASSUME LifeInv, FuturesAreCounted, [JobsNext]_vars PROVE FuturesAreCounted' OBVIOUS
<1>0. /\ futures \in [Containers -> SUBSET Runs]
      /\ queue \in [Containers -> Seq(Runs)]
      /\ job \in [Runs -> {"none", "queued", "done"} \cup AtWork \cup Dropped]
  BY DEF LifeInv, RowTypes
<1>a. ASSUME NEW c \in Containers, NEW x \in futures[c] PROVE home[x] = c BY DEF LifeInv, QueuesAreApart
<1>1. CASE UNCHANGED vars BY <1>1, SameFutures DEF vars, memory
<1>2. CASE \E q \in Requests : RequestStep(q) \/ RequestFails(q)
  <2> PICK q \in Requests : RequestStep(q) \/ RequestFails(q) BY <1>2
  <2>1. CASE SubmitRuns(q) BY <2>1, SubmitFutures
  <2>2. CASE ~ SubmitRuns(q)
    <3>1. UNCHANGED <<futures, home, job, process>>
      BY <2>2 DEF RequestStep, RequestFails, AnswerExisting, BeginRequest, CreateRows, SubmitAfterShutdown, memory
    <3> QED BY <3>1, SameFutures
  <2> QED BY <2>1, <2>2
<1>3. CASE \/ \E c \in Containers, r \in Runs : CancelRequest(c, r)
           \/ \E c \in Containers, k \in Keys : CancelExperiment(c, k)
  BY <1>3, SameFutures DEF CancelRequest, CancelExperiment
<1>4. CASE \E c \in Containers : Take(c)
  <2> PICK c \in Containers : Take(c) BY <1>4
  <2> DEFINE x == Head(queue[c])
  <2>1. /\ UNCHANGED <<futures, home, process>> /\ queue[c] # <<>> /\ job' = [job EXCEPT ![x] = "lease"]
    BY DEF Take
  <2>2. x \in Runs /\ job[x] = "queued"
    <3>1. queue[c] \in Seq(Runs) /\ Len(queue[c]) \in Nat \ {0} /\ x = queue[c][1] BY <1>0, <2>1
    <3> QED BY <3>1 DEF LifeInv, QueuesAreApart
  <2> HIDE DEF x
  <2> QED BY <1>0, <2>1, <2>2 DEF FuturesAreCounted, Holding, AtWork
<1>5. CASE \E r \in Runs : WorkerStep(r) \/ WorkerFault(r) BY <1>5, ThreadFutures
<1>6. CASE \E c \in Containers : StartContainer(c)
  <2> PICK c \in Containers : StartContainer(c) BY <1>6
  <2>1. UNCHANGED <<futures, home, job>> /\ process[c] = "down" /\ process' = [process EXCEPT ![c] = "up"]
    BY DEF StartContainer
  <2> QED BY <2>1 DEF FuturesAreCounted
<1>7. CASE \E c \in Containers : StopContainer(c)
  <2> PICK c \in Containers : StopContainer(c) BY <1>7
  <2>1. /\ UNCHANGED <<futures, home>> /\ process[c] = "up" /\ process' = [process EXCEPT ![c] = "stopping"]
        /\ job' = [r \in Runs |-> IF home[r] = c /\ job[r] = "queued" THEN "dropped" ELSE job[r]]
    BY DEF StopContainer
  <2> QED BY <1>0, <1>a, <2>1 DEF FuturesAreCounted, Holding, AtWork
<1>8. CASE \E c \in Containers : EndProcess(c)
  <2> PICK c \in Containers : EndProcess(c) BY <1>8
  <2>1. /\ home' = home /\ process' = [process EXCEPT ![c] = "down"] /\ futures' = [futures EXCEPT ![c] = {}]
        /\ job' = [r \in Runs |-> IF r \in futures[c] THEN "dropped" ELSE job[r]]
    BY DEF EndProcess
  <2> QED BY <1>0, <1>a, <2>1 DEF FuturesAreCounted, Holding, AtWork
<1> QED BY <1>1, <1>2, <1>3, <1>4, <1>5, <1>6, <1>7, <1>8 DEF JobsNext

UnderWay(q) == request[q] \in {"reserved", "created"}

\* A request under way has a server that runs, and a serving runner has reserved the slots of its requests.
ReservationsAreHeld ==
    /\ \A q \in Requests : UnderWay(q) => server[q] \in Containers /\ process[server[q]] # "down"
    /\ \A c \in Containers :
        /\ IsFiniteSet(SlotsUnderWay(c))
        /\ process[c] = "up" => reserved[c] = Cardinality(SlotsUnderWay(c))
        /\ process[c] = "down" => reserved[c] = 0

OwnInv == SlotInv /\ LifeInv /\ FuturesAreCounted /\ ReservationsAreHeld

LEMMA SlotsMembers ==
  /\ \A c, x : x \in SlotsUnderWay(c) <=> \E q \in Requests : server[q] = c /\ UnderWay(q) /\ x \in RequestRuns[q]
  /\ \A c, x : x \in SlotsUnderWay(c)' <=> \E q \in Requests : server'[q] = c /\ UnderWay(q)' /\ x \in RequestRuns[q]
  BY DEF SlotsUnderWay, UnderWay

LEMMA InitReservations == JobsInit => ReservationsAreHeld
<1> SUFFICES ASSUME JobsInit PROVE ReservationsAreHeld OBVIOUS
<1>1. \A c \in Containers : SlotsUnderWay(c) = {} BY DEF JobsInit, SlotsUnderWay
<1> QED BY <1>1, FS_EmptySet DEF JobsInit, ReservationsAreHeld, UnderWay

\* Another step than those of requests, starts and stops.
LEMMA SameReservations ==
  ASSUME ReservationsAreHeld, UNCHANGED <<request, server, process, reserved>>
  PROVE  ReservationsAreHeld'
<1>1. \A c \in Containers : SlotsUnderWay(c)' = SlotsUnderWay(c) BY DEF SlotsUnderWay
<1> QED BY <1>1 DEF ReservationsAreHeld, UnderWay

\* A request that begins holds slots no other request holds.
LEMMA BeginReservations ==
  ASSUME OwnInv, NEW q \in Requests, NEW c \in Containers, BeginRequest(q, c)
  PROVE  ReservationsAreHeld'
<1>0. /\ request \in [Requests -> {"idle", "reserved", "created", "answered", "refused", "failed"}]
      /\ server \in [Requests -> Containers \cup {None}]
      /\ reserved \in [Containers -> Nat]
      /\ process' = process /\ request[q] = "idle" /\ process[c] = "up"
  BY DEF OwnInv, LifeInv, RowTypes, SlotInv, SlotTypes, BeginRequest
<1>1. CASE Fits(c, Size(q))
  <2>1. /\ request' = [request EXCEPT ![q] = "reserved"] /\ server' = [server EXCEPT ![q] = c]
        /\ reserved' = [reserved EXCEPT ![c] = @ + Size(q)]
    BY <1>1 DEF BeginRequest, Reserve
  <2>2. \A p \in Requests : UnderWay(p)' => p = q \/ (p # q /\ UnderWay(p) /\ server'[p] = server[p])
    BY <1>0, <2>1 DEF UnderWay
  <2>3. \A p \in Requests : UnderWay(p) => p # q /\ UnderWay(p)' /\ server'[p] = server[p]
    BY <1>0, <2>1 DEF UnderWay
  <2>4. UnderWay(q)' /\ server'[q] = c BY <1>0, <2>1 DEF UnderWay
  <2>5. ASSUME NEW d \in Containers
        PROVE  SlotsUnderWay(d)' = IF d = c THEN SlotsUnderWay(d) \cup RequestRuns[q] ELSE SlotsUnderWay(d)
    BY <2>2, <2>3, <2>4 DEF SlotsUnderWay, UnderWay
  <2>6. SlotsUnderWay(c) \cap RequestRuns[q] = {} BY <2>3, SlotsMembers, RunsAreFresh
  <2>7. IsFiniteSet(SlotsUnderWay(c)) /\ reserved[c] = Cardinality(SlotsUnderWay(c)) BY <1>0 DEF OwnInv, ReservationsAreHeld
  <2>8. /\ IsFiniteSet(SlotsUnderWay(c) \cup RequestRuns[q])
        /\ Cardinality(SlotsUnderWay(c) \cup RequestRuns[q]) = reserved[c] + Size(q)
    <3>1. IsFiniteSet(RequestRuns[q]) BY RequestsCreateRuns
    <3>2. Cardinality(SlotsUnderWay(c) \cup RequestRuns[q]) = Cardinality(SlotsUnderWay(c)) + Size(q) - Cardinality({})
      BY <2>6, <2>7, <3>1, FS_Union DEF Size
    <3>3. Cardinality({}) = 0 BY FS_EmptySet
    <3>4. Size(q) \in Nat /\ reserved[c] \in Nat BY <1>0, SizesAreNatural
    <3>5. IsFiniteSet(SlotsUnderWay(c) \cup RequestRuns[q]) BY <2>7, <3>1, FS_Union
    <3> QED BY <2>7, <3>2, <3>3, <3>4, <3>5
  <2>9. ASSUME NEW d \in Containers
        PROVE  /\ IsFiniteSet(SlotsUnderWay(d)') /\ (process'[d] = "up" => reserved'[d] = Cardinality(SlotsUnderWay(d)'))
               /\ process'[d] = "down" => reserved'[d] = 0
    <3>1. CASE d = c BY <1>0, <2>1, <2>5, <2>8, <3>1
    <3>2. CASE d # c BY <1>0, <2>1, <2>5, <3>2 DEF OwnInv, ReservationsAreHeld
    <3> QED BY <3>1, <3>2
  <2>10. \A p \in Requests : UnderWay(p)' => server'[p] \in Containers /\ process'[server'[p]] # "down"
    BY <1>0, <2>2, <2>4 DEF OwnInv, ReservationsAreHeld
  <2> QED BY <2>9, <2>10 DEF ReservationsAreHeld
<1>2. CASE ~ Fits(c, Size(q))
  <2>1. request' = [request EXCEPT ![q] = "refused"] /\ UNCHANGED <<reserved, server, process>> BY <1>2 DEF BeginRequest
  <2>2. \A p \in Requests : UnderWay(p)' <=> UnderWay(p) BY <1>0, <2>1 DEF UnderWay
  <2>3. \A d \in Containers : SlotsUnderWay(d)' = SlotsUnderWay(d) BY <2>1, <2>2 DEF SlotsUnderWay, UnderWay
  <2> QED BY <2>1, <2>2, <2>3 DEF OwnInv, ReservationsAreHeld
<1> QED BY <1>1, <1>2

\* A request that ends gives back what it holds, once; only a runner that stops may lose more.
LEMMA EndReservations ==
  ASSUME OwnInv, NEW q \in Requests, UnderWay(q), NEW to \in {"answered", "failed"},
         request' = [request EXCEPT ![q] = to], UNCHANGED <<server, process>>,
         NEW kept \in Nat, reserved' = [reserved EXCEPT ![server[q]] = kept],
         process[server[q]] = "up" => kept = IF reserved[server[q]] > Size(q) THEN reserved[server[q]] - Size(q) ELSE 0
  PROVE  ReservationsAreHeld'
<1> DEFINE c == server[q]
<1>0. /\ request \in [Requests -> {"idle", "reserved", "created", "answered", "refused", "failed"}]
      /\ reserved \in [Containers -> Nat]
      /\ c \in Containers /\ process[c] # "down"
  BY DEF OwnInv, LifeInv, RowTypes, SlotInv, SlotTypes, ReservationsAreHeld
<1>1. \A p \in Requests : UnderWay(p)' <=> p # q /\ UnderWay(p) BY <1>0 DEF UnderWay
<1>2. ASSUME NEW d \in Containers
      PROVE  SlotsUnderWay(d)' = IF d = c THEN SlotsUnderWay(d) \ RequestRuns[q] ELSE SlotsUnderWay(d)
  BY <1>1, RunsAreFresh DEF SlotsUnderWay, UnderWay
<1>3. RequestRuns[q] \subseteq SlotsUnderWay(c) BY SlotsMembers
<1>4. IsFiniteSet(SlotsUnderWay(c)) /\ (process[c] = "up" => reserved[c] = Cardinality(SlotsUnderWay(c)))
  BY <1>0 DEF OwnInv, ReservationsAreHeld
<1>5. /\ IsFiniteSet(SlotsUnderWay(c) \ RequestRuns[q])
      /\ Cardinality(SlotsUnderWay(c) \ RequestRuns[q]) \in Nat
      /\ Cardinality(SlotsUnderWay(c)) = Cardinality(SlotsUnderWay(c) \ RequestRuns[q]) + Size(q)
  <2> DEFINE S == SlotsUnderWay(c)
             R == RequestRuns[q]
  <2>1. IsFiniteSet(R) /\ IsFiniteSet(S) BY <1>4, RequestsCreateRuns
  <2>2. S \cap R = R BY <1>3
  <2>3. IsFiniteSet(S \ R) /\ Cardinality(S \ R) = Cardinality(S) - Cardinality(S \cap R) BY <2>1, FS_Difference
  <2>4. Cardinality(S) \in Nat /\ Cardinality(R) \in Nat /\ Cardinality(S \ R) \in Nat BY <2>1, <2>3, FS_CardinalityType
  <2> DEFINE rest == Cardinality(S \ R)
             both == Cardinality(S)
             mine == Cardinality(R)
  <2>a. rest = both - mine /\ rest \in Nat /\ both \in Nat /\ mine \in Nat BY <2>2, <2>3, <2>4
  <2> HIDE DEF rest, both, mine
  <2>b. both = rest + mine BY <2>a
  <2>5. Cardinality(S) = Cardinality(S \ R) + Cardinality(R) BY <2>b DEF rest, both, mine
  <2> HIDE DEF S, R
  <2> QED BY <2>3, <2>4, <2>5 DEF Size, S, R
<1> HIDE DEF c
<1>6. process[c] = "up" => kept = Cardinality(SlotsUnderWay(c) \ RequestRuns[q])
  <2>1. SUFFICES ASSUME process[c] = "up" PROVE kept = Cardinality(SlotsUnderWay(c) \ RequestRuns[q]) OBVIOUS
  <2>2. kept = IF reserved[c] > Size(q) THEN reserved[c] - Size(q) ELSE 0 BY <2>1 DEF c
  <2> QED BY <1>4, <1>5, <2>1, <2>2, SizesAreNatural
<1>7. ASSUME NEW d \in Containers
      PROVE  /\ IsFiniteSet(SlotsUnderWay(d)') /\ (process'[d] = "up" => reserved'[d] = Cardinality(SlotsUnderWay(d)'))
             /\ process'[d] = "down" => reserved'[d] = 0
  <2>1. CASE d = c
    <3>1. SlotsUnderWay(d)' = SlotsUnderWay(c) \ RequestRuns[q] /\ reserved'[d] = kept /\ process'[d] = process[c]
      BY <1>0, <1>2, <2>1 DEF c
    <3> QED BY <1>0, <1>5, <1>6, <3>1
  <2>2. CASE d # c
    <3>1. SlotsUnderWay(d)' = SlotsUnderWay(d) /\ reserved'[d] = reserved[d] /\ process'[d] = process[d]
      BY <1>0, <1>2, <2>2 DEF c
    <3> QED BY <3>1 DEF OwnInv, ReservationsAreHeld
  <2> QED BY <2>1, <2>2
<1>8. \A p \in Requests : UnderWay(p)' => server'[p] \in Containers /\ process'[server'[p]] # "down"
  BY <1>1 DEF OwnInv, ReservationsAreHeld
<1> QED BY <1>7, <1>8 DEF ReservationsAreHeld

\* The steps of a request.
LEMMA RequestReservations ==
  ASSUME OwnInv, NEW q \in Requests, RequestStep(q) \/ RequestFails(q)
  PROVE  ReservationsAreHeld'
<1>0. /\ request \in [Requests -> {"idle", "reserved", "created", "answered", "refused", "failed"}]
      /\ reserved \in [Containers -> Nat] /\ Size(q) \in Nat /\ ReservationsAreHeld
      /\ UnderWay(q) => server[q] \in Containers
  BY SizesAreNatural DEF OwnInv, LifeInv, RowTypes, SlotInv, SlotTypes, ReservationsAreHeld
<1>a. ASSUME UnderWay(q), NEW n \in Nat PROVE (IF reserved[server[q]] > n THEN reserved[server[q]] - n ELSE 0) \in Nat
  BY <1>0, <1>a
<1>1. CASE \E c \in Containers : AnswerExisting(q, c)
  <2>1. UNCHANGED <<server, process, reserved>> /\ request[q] = "idle" /\ request' = [request EXCEPT ![q] = "answered"]
    BY <1>1 DEF AnswerExisting, memory
  <2>2. \A p \in Requests : UnderWay(p)' <=> UnderWay(p) BY <1>0, <2>1 DEF UnderWay
  <2>3. \A d \in Containers : SlotsUnderWay(d)' = SlotsUnderWay(d) BY <2>1, <2>2 DEF SlotsUnderWay, UnderWay
  <2> QED BY <1>0, <2>1, <2>2, <2>3 DEF ReservationsAreHeld
<1>2. CASE \E c \in Containers : BeginRequest(q, c) BY <1>2, BeginReservations
<1>3. CASE CreateRows(q)
  <2>1. UNCHANGED <<server, process>> /\ request[q] = "reserved" BY <1>3 DEF CreateRows
  <2>2. CASE Key[q] # NoKey /\ experiment[Key[q]] # None
    BY <1>3, <1>a, <1>0, <2>1, <2>2, EndReservations DEF CreateRows, Release, UnderWay
  <2>3. CASE ~ (Key[q] # NoKey /\ experiment[Key[q]] # None)
    <3>1. request' = [request EXCEPT ![q] = "created"] /\ reserved' = reserved BY <1>3, <2>3 DEF CreateRows
    <3>2. \A p \in Requests : UnderWay(p)' <=> UnderWay(p) BY <1>0, <2>1, <3>1 DEF UnderWay
    <3>3. \A d \in Containers : SlotsUnderWay(d)' = SlotsUnderWay(d) BY <2>1, <3>2 DEF SlotsUnderWay, UnderWay
    <3> QED BY <1>0, <2>1, <3>1, <3>2, <3>3 DEF ReservationsAreHeld
  <2> QED BY <2>2, <2>3
<1>4. CASE SubmitRuns(q)
  <2>1. /\ UNCHANGED <<server, process>> /\ UnderWay(q) /\ request' = [request EXCEPT ![q] = "answered"]
        /\ reserved[server[q]] >= Size(q) /\ reserved' = [reserved EXCEPT ![server[q]] = @ - Size(q)]
    BY <1>4 DEF SubmitRuns, Enqueue, UnderWay, Size
  <2>2. reserved[server[q]] \in Nat BY <1>0, <2>1
  <2>3. /\ reserved[server[q]] - Size(q) \in Nat
        /\ reserved[server[q]] - Size(q) = IF reserved[server[q]] > Size(q) THEN reserved[server[q]] - Size(q) ELSE 0
    BY <1>0, <2>1, <2>2
  <2> QED BY <2>1, <2>3, EndReservations
<1>5. CASE SubmitAfterShutdown(q)
  <2>1. 2 * Size(q) \in Nat BY <1>0
  <2> QED BY <1>5, <1>a, <2>1, EndReservations DEF SubmitAfterShutdown, Release, UnderWay
<1>6. CASE RequestFails(q) BY <1>0, <1>6, <1>a, EndReservations DEF RequestFails, Release, UnderWay
<1> QED BY <1>1, <1>2, <1>3, <1>4, <1>5, <1>6 DEF RequestStep

LEMMA NextReservations == OwnInv /\ [JobsNext]_vars => ReservationsAreHeld'
<1> SUFFICES ASSUME OwnInv, [JobsNext]_vars PROVE ReservationsAreHeld' OBVIOUS
<1>0. /\ ReservationsAreHeld /\ FuturesAreCounted /\ process \in [Containers -> {"down", "up", "stopping"}]
      /\ request \in [Requests -> {"idle", "reserved", "created", "answered", "refused", "failed"}]
      /\ reserved \in [Containers -> Nat]
  BY DEF OwnInv, LifeInv, RowTypes, SlotInv, SlotTypes, FuturesAreCounted
<1>1. CASE UNCHANGED vars BY <1>0, <1>1, SameReservations DEF vars, memory, requests
<1>2. CASE \E q \in Requests : RequestStep(q) \/ RequestFails(q) BY <1>2, RequestReservations
<1>3. CASE \/ \E c \in Containers, r \in Runs : CancelRequest(c, r)
           \/ \E c \in Containers, k \in Keys : CancelExperiment(c, k)
  BY <1>0, <1>3, SameReservations DEF CancelRequest, CancelExperiment, requests
<1>4. CASE \E c \in Containers : Take(c) BY <1>0, <1>4, SameReservations DEF Take, requests
<1>5. CASE \E r \in Runs : WorkerStep(r) \/ WorkerFault(r) BY <1>0, <1>5, ThreadMoved, SameReservations
<1>6. CASE \E c \in Containers : StartContainer(c) \/ StopContainer(c)
  <2> PICK c \in Containers : StartContainer(c) \/ StopContainer(c) BY <1>6
  <2>1. /\ UNCHANGED <<request, server, reserved>>
        /\ \/ process[c] = "down" /\ process' = [process EXCEPT ![c] = "up"]
           \/ process[c] = "up" /\ process' = [process EXCEPT ![c] = "stopping"]
    BY DEF StartContainer, StopContainer, requests
  <2>2. \A d \in Containers : SlotsUnderWay(d)' = SlotsUnderWay(d) BY <2>1 DEF SlotsUnderWay
  <2>3. process[c] = "down" => SlotsUnderWay(c) = {} BY <1>0 DEF ReservationsAreHeld, SlotsUnderWay, UnderWay
  <2>4. process[c] = "down" => reserved[c] = Cardinality(SlotsUnderWay(c)) BY <1>0, <2>3, FS_EmptySet DEF ReservationsAreHeld
  <2> QED BY <1>0, <2>1, <2>2, <2>4 DEF ReservationsAreHeld, UnderWay
<1>7. CASE \E c \in Containers : EndProcess(c)
  <2> PICK c \in Containers : EndProcess(c) BY <1>7
  <2>1. /\ server' = server /\ process' = [process EXCEPT ![c] = "down"] /\ reserved' = [reserved EXCEPT ![c] = 0]
        /\ request' = [q \in Requests |-> IF server[q] = c /\ request[q] \in {"reserved", "created"} THEN "failed" ELSE request[q]]
    BY DEF EndProcess
  <2>2. \A p \in Requests : UnderWay(p)' <=> UnderWay(p) /\ server[p] # c BY <2>1 DEF UnderWay
  <2>3. \A d \in Containers : SlotsUnderWay(d)' = IF d = c THEN {} ELSE SlotsUnderWay(d) BY <2>1, <2>2 DEF SlotsUnderWay, UnderWay
  <2> QED BY <1>0, <2>1, <2>2, <2>3, FS_EmptySet DEF ReservationsAreHeld
<1> QED BY <1>1, <1>2, <1>3, <1>4, <1>5, <1>6, <1>7 DEF JobsNext

\* While a container serves, the slots its runner counts are exactly those of requests under
\* way and of runs that wait or execute, for any number of them: no step gives a slot back
\* twice or keeps one, except after a shutdown and for a lease that could not be built.
THEOREM SlotsHaveOwners == JobsSpec => []SlotsAreOwned
<1>1. OwnInv /\ [JobsNext]_vars => OwnInv'
  BY NextSlots, NextLife, NextFutures, NextReservations DEF OwnInv
<1>2. JobsInit => OwnInv BY InitSlots, InitLife, InitFutures, InitReservations DEF OwnInv
<1>3. OwnInv => SlotsAreOwned
  <2> SUFFICES ASSUME OwnInv, NEW c \in Containers, process[c] = "up"
               PROVE  /\ reserved[c] = Cardinality(SlotsUnderWay(c))
                      /\ futures[c] = {r \in Runs : home[r] = c /\ job[r] \in {"queued", "leaked"} \cup AtWork}
    BY DEF SlotsAreOwned
  <2>1. futures[c] \in SUBSET Runs /\ \A r \in futures[c] : home[r] = c
    BY DEF OwnInv, LifeInv, RowTypes, QueuesAreApart
  <2>2. \A r \in Runs : r \in futures[c] <=> home[r] = c /\ job[r] \in Holding
    BY <2>1 DEF OwnInv, FuturesAreCounted
  <2> QED BY <2>1, <2>2 DEF OwnInv, ReservationsAreHeld, Holding
<1> QED BY <1>1, <1>2, <1>3, PTL DEF JobsSpec

-----------------------------------------------------------------------------
(* Experiments: one per idempotency key, and what their status promises.   *)

\* The experiment of a key is the one whose rows were written, all of them, and no request
\* with the same key has written any.
KeysAreOwned ==
    /\ experiment \in [Keys -> Requests \cup {None}]
    /\ \A k \in Keys : experiment[k] # None =>
        Key[experiment[k]] = k /\ \A r \in RequestRuns[experiment[k]] : status[r] # "absent"
    /\ \A q \in Requests, r \in Runs :
        Key[q] # NoKey /\ r \in RequestRuns[q] /\ status[r] # "absent" => experiment[Key[q]] = q

KeyInv == LifeInv /\ KeysAreOwned

LEMMA InitKeys == JobsInit => KeysAreOwned
  BY NoneIsNobody, RequestsCreateRuns DEF JobsInit, KeysAreOwned

\* A step that writes no new row and no experiment.
LEMMA SameKeys ==
  ASSUME KeysAreOwned, experiment' = experiment, \A r \in Runs : status'[r] = "absent" <=> status[r] = "absent"
  PROVE  KeysAreOwned'
<1>1. \A q \in Requests : RequestRuns[q] \subseteq Runs BY RequestsCreateRuns
<1> QED BY <1>1 DEF KeysAreOwned

\* The insert finds no experiment with its key, so no request with that key has rows.
LEMMA CreateKeys ==
  ASSUME LifeInv, KeysAreOwned, NEW q \in Requests, CreateRows(q)
  PROVE  KeysAreOwned'
<1>0. RequestRuns[q] \in SUBSET Runs /\ \A p \in Requests : RequestRuns[p] \subseteq Runs BY RequestsCreateRuns
<1>1. CASE Key[q] # NoKey /\ experiment[Key[q]] # None BY <1>1, SameKeys DEF CreateRows
<1>2. CASE ~ (Key[q] # NoKey /\ experiment[Key[q]] # None)
  <2>1. /\ status' = [r \in Runs |-> IF r \in RequestRuns[q] THEN "QUEUED" ELSE status[r]]
        /\ experiment' = [k \in Keys |-> IF k = Key[q] THEN q ELSE experiment[k]]
    BY <1>2 DEF CreateRows
  <2>2. Key[q] # NoKey => Key[q] \in Keys /\ experiment[Key[q]] = None BY <1>2 DEF Keys
  <2>3. experiment' \in [Keys -> Requests \cup {None}] BY <2>1 DEF KeysAreOwned
  <2>4. ASSUME NEW k \in Keys, experiment'[k] # None
        PROVE  Key[experiment'[k]] = k /\ \A r \in RequestRuns[experiment'[k]] : status'[r] # "absent"
    <3>1. CASE k = Key[q] BY <1>0, <2>1, <3>1
    <3>2. CASE k # Key[q]
      <4>1. experiment'[k] = experiment[k] /\ experiment[k] \in Requests BY <2>1, <2>4, <3>2 DEF KeysAreOwned
      <4> QED BY <1>0, <2>1, <2>4, <4>1 DEF KeysAreOwned
    <3> QED BY <3>1, <3>2
  <2>5. ASSUME NEW p \in Requests, NEW r \in Runs, Key[p] # NoKey, r \in RequestRuns[p], status'[r] # "absent"
        PROVE  experiment'[Key[p]] = p
    <3>1. Key[p] \in Keys BY <2>5 DEF Keys
    <3>2. CASE p = q BY <2>1, <3>1, <3>2
    <3>3. CASE p # q
      <4>1. r \notin RequestRuns[q] BY <2>5, <3>3, RunsAreFresh
      <4>2. experiment[Key[p]] = p BY <2>1, <2>5, <4>1 DEF KeysAreOwned
      <4>3. Key[p] # Key[q] BY <2>2, <2>5, <4>2, NoneIsNobody
      <4> QED BY <2>1, <3>1, <4>2, <4>3
    <3> QED BY <3>2, <3>3
  <2> QED BY <2>3, <2>4, <2>5 DEF KeysAreOwned
<1> QED BY <1>1, <1>2

LEMMA ThreadKeys ==
  ASSUME LifeInv, KeysAreOwned, NEW r \in Runs, WorkerStep(r) \/ WorkerFault(r)
  PROVE  KeysAreOwned'
<1>0. status \in [Runs -> Life!Statuses] BY DEF LifeInv, RowTypes
<1>1. experiment' = experiment BY ThreadMoved
<1>2. status' = status \/ \E s \in Active \cup Terminal : status' = [status EXCEPT ![r] = s] /\ status[r] # "absent"
  <2> USE DEF Step, Finish, Active, Terminal
  <2>0. job[r] \in {"lease", "begin", "symbols", "readback"} => status[r] \in {"QUEUED", "RUNNING", "INTERRUPTED", "COMPLETE"}
    BY DEF LifeInv, ThreadsKnowRows
  <2>1. CASE EnterLease(r) BY <2>0, <2>1 DEF EnterLease
  <2>2. CASE BeginEngine(r)
    <3>1. status[r] \in {"QUEUED", "INTERRUPTED"} BY <2>2 DEF BeginEngine, LifeInv, ThreadsKnowRows
    <3> QED BY <2>2, <3>1 DEF BeginEngine
  <2>3. CASE RunSymbol(r) BY <2>0, <2>3 DEF RunSymbol
  <2>4. CASE CompleteRun(r) BY <2>0, <2>4 DEF CompleteRun
  <2>5. CASE PopFuture(r) \/ ReadBack(r) BY <2>5 DEF PopFuture, ReadBack
  <2>6. CASE LeaseRefused(r) \/ LeaseFactoryFails(r) \/ EngineNotBuilt(r)
    BY <2>6 DEF LeaseRefused, LeaseFactoryFails, EngineNotBuilt
  <2>7. CASE EngineFails(r) BY <2>0, <2>7 DEF EngineFails
  <2> QED BY <2>1, <2>2, <2>3, <2>4, <2>5, <2>6, <2>7 DEF WorkerStep, WorkerFault
<1> QED BY <1>0, <1>1, <1>2, SameKeys DEF Active, Terminal

LEMMA NextKeys == KeyInv /\ [JobsNext]_vars => KeysAreOwned'
<1> SUFFICES ASSUME LifeInv, KeysAreOwned, [JobsNext]_vars PROVE KeysAreOwned' BY DEF KeyInv
<1>1. CASE UNCHANGED vars BY <1>1, SameKeys DEF vars, rows, requests
<1>2. CASE \E q \in Requests : RequestStep(q) \/ RequestFails(q)
  <2> PICK q \in Requests : RequestStep(q) \/ RequestFails(q) BY <1>2
  <2>1. CASE CreateRows(q) BY <2>1, CreateKeys
  <2>2. CASE ~ CreateRows(q)
    <3>1. UNCHANGED <<status, experiment>>
      BY <2>2 DEF RequestStep, RequestFails, AnswerExisting, BeginRequest, SubmitRuns, SubmitAfterShutdown
    <3> QED BY <3>1, SameKeys
  <2> QED BY <2>1, <2>2
<1>3. CASE \/ \E c \in Containers, r \in Runs : CancelRequest(c, r)
           \/ \E c \in Containers, k \in Keys : CancelExperiment(c, k)
  BY <1>3, SameKeys DEF CancelRequest, CancelExperiment, requests
<1>4. CASE \E c \in Containers : Take(c) BY <1>4, SameKeys DEF Take, requests
<1>5. CASE \E r \in Runs : WorkerStep(r) \/ WorkerFault(r) BY <1>5, ThreadKeys
<1>6. CASE \E c \in Containers : StartContainer(c)
  <2>1. experiment' = experiment /\ status' = [r \in Runs |-> IF status[r] \in Active THEN "INTERRUPTED" ELSE status[r]]
    BY <1>6 DEF StartContainer, InterruptStale, requests
  <2> QED BY <2>1, SameKeys DEF Active
<1>7. CASE \E c \in Containers : StopContainer(c) \/ EndProcess(c)
  BY <1>7, SameKeys DEF StopContainer, EndProcess, requests
<1> QED BY <1>1, <1>2, <1>3, <1>4, <1>5, <1>6, <1>7 DEF JobsNext

LEMMA KeyInvariant == JobsSpec => []KeyInv
<1>1. JobsInit => KeyInv BY InitLife, InitKeys DEF KeyInv
<1>2. KeyInv /\ [JobsNext]_vars => KeyInv' BY NextLife, NextKeys DEF KeyInv
<1> QED BY <1>1, <1>2, PTL DEF JobsSpec

\* However many requests carry one idempotency key, at once or after failures, only one has
\* rows: the second look inside the insert's transaction is what decides.
THEOREM KeysHaveOneExperiment == JobsSpec => []OneExperimentPerKey
<1>1. KeyInv => OneExperimentPerKey
  <2> SUFFICES ASSUME KeyInv, NEW p \in Requests, NEW q \in Requests, p # q, Key[p] = Key[q], Key[p] # NoKey,
                      NEW r \in RequestRuns[p], NEW s \in RequestRuns[q], status[r] # "absent", status[s] # "absent"
               PROVE  FALSE
    BY DEF OneExperimentPerKey
  <2>1. r \in Runs /\ s \in Runs BY RequestsCreateRuns
  <2> QED BY <2>1 DEF KeyInv, KeysAreOwned
<1> QED BY <1>1, KeyInvariant, PTL

\* An experiment that does not read QUEUED or RUNNING has only runs that ended.
LEMMA EndedHasEnded ==
  ASSUME NEW k \in Keys, \A r \in RequestRuns[experiment[k]] : status[r] \in Active \cup Terminal
  PROVE  ExperimentStatus(k) \notin Active <=> \A r \in RequestRuns[experiment[k]] : status[r] \in Terminal
<1> DEFINE all == {status[r] : r \in RequestRuns[experiment[k]]}
<1>1. all \subseteq Active \cup Terminal OBVIOUS
<1>2. ExperimentStatus(k) =
        CASE all \in {{"COMPLETE"}, {"CANCELLED"}} -> CHOOSE s \in all : TRUE
          [] "RUNNING" \in all -> "RUNNING"
          [] "RUNNING" \notin all /\ "QUEUED" \in all -> "QUEUED"
          [] all \subseteq {"FAILED", "INTERRUPTED"} -> "FAILED"
          [] OTHER -> "PARTIAL"
  BY DEF ExperimentStatus
<1>3. (\A r \in RequestRuns[experiment[k]] : status[r] \in Terminal) <=> all \subseteq Terminal OBVIOUS
<1> HIDE DEF all
<1>4. CASE all \in {{"COMPLETE"}, {"CANCELLED"}}
  <2>1. (CHOOSE s \in all : TRUE) \in all BY <1>4
  <2>2. "RUNNING" \notin all /\ "QUEUED" \notin all /\ ~ (all \subseteq {"FAILED", "INTERRUPTED"}) BY <1>4
  <2> QED BY <1>2, <1>3, <1>4, <2>1, <2>2 DEF Active, Terminal
<1>5. CASE "RUNNING" \in all
  <2>1. all \notin {{"COMPLETE"}, {"CANCELLED"}} /\ ~ (all \subseteq {"FAILED", "INTERRUPTED"}) BY <1>5
  <2> QED BY <1>2, <1>3, <1>5, <2>1 DEF Active, Terminal
<1>6. CASE "RUNNING" \notin all /\ "QUEUED" \in all
  <2>1. all \notin {{"COMPLETE"}, {"CANCELLED"}} /\ ~ (all \subseteq {"FAILED", "INTERRUPTED"}) BY <1>6
  <2> QED BY <1>2, <1>3, <1>6, <2>1 DEF Active, Terminal
<1>7. CASE all \notin {{"COMPLETE"}, {"CANCELLED"}} /\ "RUNNING" \notin all /\ "QUEUED" \notin all
  <2>1. ExperimentStatus(k) \in {"FAILED", "PARTIAL"} BY <1>2, <1>7
  <2>2. all \subseteq Terminal BY <1>1, <1>7 DEF Active, Terminal
  <2> QED BY <1>3, <2>1, <2>2 DEF Active
<1> QED BY <1>4, <1>5, <1>6, <1>7

\* A run that has ended, and what may still become of its status.
OverwrittenByThread(r) ==
    \/ status[r] = "INTERRUPTED" /\ job[r] \in AtWork /\ status'[r] \in Terminal
    \/ status[r] = "COMPLETE" /\ job[r] = "readback" /\ status'[r] = "FAILED"

\* Only the thread that works on a run changes a status that has ended.
LEMMA ThreadOverwrites ==
  ASSUME LifeInv, NEW x \in Runs, WorkerStep(x) \/ WorkerFault(x), NEW r \in Runs, status[r] \in Terminal
  PROVE  status'[r] = status[r] \/ OverwrittenByThread(r)
<1> USE DEF Step, Finish, OverwrittenByThread, AtWork, Terminal
<1>0. /\ status \in [Runs -> Life!Statuses]
      /\ job[x] \in {"lease", "begin"} => status[x] \in {"QUEUED", "INTERRUPTED"}
      /\ job[x] = "symbols" => status[x] \in {"RUNNING", "INTERRUPTED"}
      /\ job[x] = "readback" => status[x] = "COMPLETE"
  BY DEF LifeInv, RowTypes, ThreadsKnowRows
<1>1. CASE EnterLease(x) BY <1>0, <1>1 DEF EnterLease
<1>2. CASE BeginEngine(x) BY <1>0, <1>2 DEF BeginEngine
<1>3. CASE RunSymbol(x) BY <1>0, <1>3 DEF RunSymbol
<1>4. CASE CompleteRun(x) BY <1>0, <1>4 DEF CompleteRun
<1>5. CASE PopFuture(x) \/ ReadBack(x) \/ LeaseRefused(x) \/ LeaseFactoryFails(x) \/ EngineNotBuilt(x)
  BY <1>5 DEF PopFuture, ReadBack, LeaseRefused, LeaseFactoryFails, EngineNotBuilt
<1>6. CASE EngineFails(x) BY <1>0, <1>6 DEF EngineFails
<1> QED BY <1>1, <1>2, <1>3, <1>4, <1>5, <1>6 DEF WorkerStep, WorkerFault

\* No request, cancel, start or stop touches a status that has ended.
LEMMA EndedOverwritten ==
  ASSUME LifeInv, [JobsNext]_vars, NEW r \in Runs, status[r] \in Terminal
  PROVE  status'[r] = status[r] \/ OverwrittenByThread(r)
<1>1. CASE \E q \in Requests : CreateRows(q)
  <2> PICK q \in Requests : CreateRows(q) BY <1>1
  <2>1. r \notin RequestRuns[q] BY DEF CreateRows, LifeInv, RequestsAreFirst, Terminal
  <2> QED BY <2>1 DEF CreateRows
<1>2. CASE \E x \in Runs : WorkerStep(x) \/ WorkerFault(x) BY <1>2, ThreadOverwrites
<1>3. CASE \E c \in Containers : StartContainer(c)
  BY <1>3 DEF StartContainer, InterruptStale, Active, Terminal
<1>4. CASE UNCHANGED status BY <1>4
<1>5. \/ \E q \in Requests : CreateRows(q)
      \/ \E x \in Runs : WorkerStep(x) \/ WorkerFault(x)
      \/ \E c \in Containers : StartContainer(c)
      \/ UNCHANGED status
  BY DEF JobsNext, vars, rows, RequestStep, RequestFails, AnswerExisting, BeginRequest, SubmitRuns,
         SubmitAfterShutdown, CancelRequest, CancelExperiment, Take, StopContainer, EndProcess
<1> QED BY <1>1, <1>2, <1>3, <1>4, <1>5

\* An experiment that reads as over never reads QUEUED or RUNNING again, and none of its runs
\* changes but by the thread that executes it: one declared INTERRUPTED while its container
\* lived may be brought to its end, and one whose completion is being read back may fail.
THEOREM EndedExperimentsStayEnded == JobsSpec => EndedExperimentStaysEnded
<1> DEFINE Rests(r) == \/ status'[r] = status[r]
                       \/ status[r] = "INTERRUPTED" /\ job[r] \in AtWork /\ status'[r] \in Terminal
                       \/ status[r] = "COMPLETE" /\ job[r] = "readback" /\ status'[r] = "FAILED"
           Stays(k) == (experiment[k] # None /\ ExperimentStatus(k) \notin Active) =>
               /\ ExperimentStatus(k)' \notin Active
               /\ \A r \in RequestRuns[experiment[k]] : Rests(r)
<1>1. KeyInv /\ KeyInv' /\ [JobsNext]_vars /\ [Life!Next]_(Life!lifeVars) => [\A k \in Keys : Stays(k)]_vars
  <2> SUFFICES ASSUME KeyInv, KeyInv', [JobsNext]_vars, [Life!Next]_(Life!lifeVars), NEW k \in Keys,
                      experiment[k] # None, ExperimentStatus(k) \notin Active
               PROVE  ExperimentStatus(k)' \notin Active /\ \A r \in RequestRuns[experiment[k]] : Rests(r)
    OBVIOUS
  <2>0. /\ status \in [Runs -> Life!Statuses] /\ status' \in [Runs -> Life!Statuses]
        /\ experiment[k] \in Requests /\ RequestRuns[experiment[k]] \subseteq Runs
    BY RequestsCreateRuns DEF KeyInv, LifeInv, RowTypes, KeysAreOwned
  <2>1. \A r \in RequestRuns[experiment[k]] : status[r] \in Active \cup Terminal
    BY <2>0 DEF KeyInv, KeysAreOwned, Life!Statuses, Life!Active, Life!Terminal, Active, Terminal
  <2>2. \A r \in RequestRuns[experiment[k]] : status[r] \in Terminal BY <2>1, EndedHasEnded
  <2>3. \A r \in RequestRuns[experiment[k]] : Rests(r)
    BY <2>0, <2>2, EndedOverwritten DEF OverwrittenByThread, KeyInv
  <2>4. \A r \in RequestRuns[experiment[k]] : status'[r] \in Terminal BY <2>2, <2>3 DEF Terminal
  <2>5. experiment'[k] = experiment[k]
    <3>1. \A r \in RequestRuns[experiment[k]] : status'[r] # "absent" BY <2>4 DEF Terminal
    <3>2. experiment' = experiment \/ \E q \in Requests : /\ Key[q] = NoKey \/ experiment[Key[q]] = None
              /\ experiment' = [j \in Keys |-> IF j = Key[q] THEN q ELSE experiment[j]]
      BY DEF JobsNext, vars, requests, RequestStep, RequestFails, AnswerExisting, BeginRequest, CreateRows, SubmitRuns,
             SubmitAfterShutdown, CancelRequest, CancelExperiment, Take, WorkerStep, WorkerFault, EnterLease, BeginEngine,
             RunSymbol, CompleteRun, ReadBack, PopFuture, LeaseRefused, LeaseFactoryFails, EngineNotBuilt, EngineFails,
             StartContainer, StopContainer, EndProcess
    <3>3. k # NoKey BY DEF Keys
    <3> QED BY <3>2, <3>3
  <2>6. (\A r \in RequestRuns[experiment[k]] : status[r] \in Active \cup Terminal)'
    BY <2>4, <2>5
  <2>7. (ExperimentStatus(k) \notin Active)' <=> (\A r \in RequestRuns[experiment[k]] : status[r] \in Terminal)'
    BY <2>6, EndedHasEnded, PTL
  <2> QED BY <2>3, <2>4, <2>5, <2>7
<1> QED BY <1>1, NextLife, KeyInvariant, PTL DEF JobsSpec, EndedExperimentStaysEnded, KeyInv

-----------------------------------------------------------------------------
(* Walk-forward validation, over the queue above. *)

\* Nothing of the coordinator is written for a validation it does not know.
Shapes ==
    /\ DOMAIN vCancel = Validations /\ DOMAIN coord = Validations /\ DOMAIN position = Validations
    /\ DOMAIN tested = Validations /\ DOMAIN view = Validations /\ DOMAIN aggregate = Validations
    /\ DOMAIN canceller = Validations /\ DOMAIN seen = Validations /\ DOMAIN left = Validations
    /\ DOMAIN fold = Validations /\ DOMAIN selected = Validations
    /\ \A v \in Validations : DOMAIN fold[v] = 1 .. Folds[v] /\ DOMAIN selected[v] = 1 .. Folds[v]

\* The folds are written with the rows of their runs, before anything reads them.
Submitted(v) ==
    /\ coord[v] \in {"none", "queued"} => position[v] = 1 /\ tested[v] = {}
    /\ \A f \in 1 .. Folds[v] : fold[v][f] = "absent" <=> fold[v][1] = "absent"
    /\ fold[v][1] # "absent" => /\ request[Submission[v]] \notin {"idle", "reserved"}
                                /\ \A r \in RequestRuns[Submission[v]] : status[r] # "absent"
    /\ coord[v] # "none" => request[Submission[v]] = "answered" /\ fold[v][1] # "absent"
    /\ request[Submission[v]] = "created" => fold[v][1] # "absent"
    /\ canceller[v] # {} => fold[v][1] # "absent"

\* The steps of a fold before it has a test run, and those that follow it.
BeforeTest == {"none", "queued", "loop", "train", "wait", "choose", "test", "cancelRuns", "cancelFold"}
WithTest == {"submit", "withdraw", "await", "settle"}

\* The coordinator is at one fold; only the folds up to there can have a test run.
Placed(v) ==
    /\ position[v] \in Nat \ {0}
    /\ tested[v] \subseteq 1 .. Folds[v] /\ \A f \in tested[v] : f <= position[v]
    /\ left[v] \subseteq 1 .. Folds[v]
    /\ coord[v] \in BeforeTest => position[v] \notin tested[v]
    /\ coord[v] \in WithTest => position[v] \in tested[v]
    /\ coord[v] \in AtFold \ {"loop"} => position[v] <= Folds[v]
    /\ coord[v] \in {"finish", "done"} => position[v] > Folds[v]

\* A run that waits to be submitted, where a starting container may take it for dead.
Waiting == {"QUEUED", "INTERRUPTED"}

\* A test run is untouched until its fold is given one, and waits until it is submitted.
TestKnown(v) ==
    /\ \A f \in 1 .. Folds[v] : f \notin tested[v] => status[Test[v][f]] = "absent" /\ job[Test[v][f]] = "none"
    /\ \A f \in tested[v] : status[Test[v][f]] # "absent"
    /\ coord[v] \in {"submit", "withdraw"} =>
         status[Test[v][position[v]]] \in Waiting /\ job[Test[v][position[v]]] = "none"
    /\ coord[v] = "withdraw" => (status[Test[v][position[v]]] = "QUEUED" => cancel[Test[v][position[v]]])
    /\ coord[v] = "settle" =>
         /\ status[Test[v][position[v]]] \in Terminal
         /\ Test[v][position[v]] \notin revised => view[v].result = status[Test[v][position[v]]]

\* Every candidate of fold f has ended.
TrainingEnded(v, f) == \A r \in Range(Training[v][f]) : status[r] \in Terminal

\* No completed candidate of fold f with enough trades beats the one at position i.
Unbeaten(v, f, i) ==
    LET s == Training[v][f]
        w == s[i]
    IN  /\ Trades[w] >= MinTrades /\ (w \notin revised => status[w] = "COMPLETE")
        /\ \A r \in Range(s) \ revised : (status[r] = "COMPLETE" /\ Trades[r] >= MinTrades) => Score[r] <= Score[w]

\* The candidates that the coordinator saw complete are those that are.
ViewIsRight(v) ==
    \A r \in Range(Training[v][position[v]]) \ revised : r \in view[v].complete <=> status[r] = "COMPLETE"

\* Training is over, and seen to be, when a candidate is chosen for the test.
Trained(v) ==
    /\ \A f \in tested[v] : /\ TrainingEnded(v, f)
                            /\ selected[v][f] \in DOMAIN Training[v][f] /\ Unbeaten(v, f, selected[v][f])
    /\ coord[v] = "choose" /\ ~ vCancel[v] => TrainingEnded(v, position[v]) /\ ViewIsRight(v)
    /\ coord[v] = "test" => /\ TrainingEnded(v, position[v]) /\ ViewIsRight(v)
                            /\ Eligible(v, view[v].complete) # {}

\* The unseen test of fold f has completed, though its row may have turned FAILED since.
TestCompleted(v, f) == f \in tested[v] /\ (status[Test[v][f]] = "COMPLETE" \/ Test[v][f] \in revised)

\* The folds behind the coordinator have ended, and the completed ones have been tested;
\* when it fails, those it has yet to mark FAILED are noted.
Folded(v) ==
    /\ \A f \in 1 .. Folds[v] : f < position[v] \/ coord[v] = "failed" => fold[v][f] \in Ended
    /\ coord[v] = "failing" => \A f \in (1 .. Folds[v]) \ left[v] : fold[v][f] \in Ended
    /\ \A f \in 1 .. Folds[v] : fold[v][f] = "COMPLETE" => TestCompleted(v, f)
    /\ aggregate[v] # None => \A f \in aggregate[v] : f \in 1 .. Folds[v] /\ TestCompleted(v, f)

\* Where a coordinator stands that broke off.
Broken == {"failing", "failed", "abandoned", "dropped"}

\* Every candidate of fold f has ended or has been asked to.
Reached(v, f) == \A r \in Range(Training[v][f]) : status[r] \in Terminal \/ cancel[r]

\* The candidates of fold f that had not ended when it was read have been noted.
Noted(v, f, live) == \A r \in Range(Training[v][f]) : r \in live \/ status[r] \in Terminal

\* The coordinator leaves a fold, and a cancel ends one, only when its runs are reached.
Stopped(v) ==
    /\ \A f \in 1 .. Folds[v] : f < position[v] =>
         Reached(v, f) /\ (f \in tested[v] => status[Test[v][f]] \in Terminal)
    /\ \A f \in 1 .. Folds[v] :
         coord[v] \notin Broken /\ f >= position[v] /\ fold[v][f] \in Ended => Reached(v, f)
    /\ \A f \in 1 .. Folds[v] :
         /\ <<f, "runs">> \in canceller[v] => Noted(v, f, seen[v][f].live)
         /\ <<f, "fold">> \in canceller[v] /\ <<f, "runs">> \notin canceller[v] => Reached(v, f)
    /\ coord[v] \in {"choose", "cancelRuns"} =>
         /\ Noted(v, position[v], view[v].live)
         /\ view[v].status \in Ended => fold[v][position[v]] \in Ended /\ Reached(v, position[v])
    /\ coord[v] = "cancelFold" => Reached(v, position[v])

ValidationInv(v) == Submitted(v) /\ Placed(v) /\ TestKnown(v) /\ Trained(v) /\ Folded(v) /\ Stopped(v)

\* The validations that wait for the coordinator wait once, and it counts only those it has not finished with.
Listed ==
    /\ coordQueue \in Seq(Validations)
    /\ \A i \in 1 .. Len(coordQueue) :
         /\ coord[coordQueue[i]] = "queued"
         /\ \A j \in 1 .. Len(coordQueue) : coordQueue[i] = coordQueue[j] => i = j
    /\ \A v \in Validations : v \in coordFutures <=> coord[v] \in AtFold \cup {"queued", "finish", "failing"}

WfInv == LifeInv /\ Shapes /\ Listed /\ \A v \in Validations : ValidationInv(v)

-----------------------------------------------------------------------------
(* The rows, threads and requests, as a validation that does nothing meanwhile *)
(* finds them again.                                                        *)

\* A final status stays as it is, but for the runs that are remembered as revised.
Kept ==
    /\ revised \subseteq revised'
    /\ \A r \in Runs : status[r] \in Terminal /\ r \notin revised' => status'[r] = status[r]

\* What has ended has ended, a cancel is not taken back, a row stays.
RowsGoOn ==
    /\ Kept
    /\ \A r \in Runs : status[r] \in Terminal => status'[r] \in Terminal
    /\ \A r \in Runs : cancel[r] => cancel'[r]
    /\ \A r \in Runs : status[r] # "absent" => status'[r] # "absent"

\* Nobody else touches a test run that was not submitted, unless to take it for dead.
TestsRest(v) ==
    \A f \in 1 .. Folds[v] :
        LET r == Test[v][f]
        IN  /\ job[r] = "none" /\ status[r] = "absent" => job'[r] = "none" /\ status'[r] = "absent"
            /\ job[r] = "none" /\ status[r] \in Waiting => job'[r] = "none" /\ status'[r] \in Waiting

RequestGoesOn(v) ==
    LET q == Submission[v]
    IN  /\ request[q] = "answered" => request'[q] = "answered"
        /\ request[q] \notin {"idle", "reserved"} => request'[q] \notin {"idle", "reserved"}
        /\ request'[q] = "created" => request[q] = "created"

Own(v) == <<vCancel[v], fold[v], tested[v], selected[v], aggregate[v], coord[v], position[v], view[v], canceller[v], seen[v], left[v]>>

\* The runs of a validation are runs, and its test runs no request creates.
LEMMA RunsOf ==
  ASSUME NEW v \in Validations
  PROVE  /\ Submission[v] \in Requests /\ RequestRuns[Submission[v]] \subseteq Runs
         /\ Folds[v] \in Nat \ {0} /\ 1 \in 1 .. Folds[v]
         /\ \A f \in 1 .. Folds[v] :
              /\ Test[v][f] \in Runs /\ \A q \in Requests : Test[v][f] \notin RequestRuns[q]
              /\ Range(Training[v][f]) \subseteq RequestRuns[Submission[v]]
              /\ Range(Training[v][f]) \subseteq Runs /\ Test[v][f] \notin Range(Training[v][f])
<1>1. Submission[v] \in Requests /\ RequestRuns[Submission[v]] \in SUBSET Runs /\ Folds[v] \in Nat \ {0}
  BY ValidationsAreSubmitted, RequestsCreateRuns
<1>2. ASSUME NEW f \in 1 .. Folds[v]
      PROVE  /\ Test[v][f] \in Runs /\ \A q \in Requests : Test[v][f] \notin RequestRuns[q]
             /\ Range(Training[v][f]) \subseteq RequestRuns[Submission[v]]
  <2>1. Training[v][f] \in Seq(RequestRuns[Submission[v]]) /\ Test[v][f] \in Runs BY FoldsHaveRuns
  <2>2. \A q \in Requests : Test[v][f] \notin RequestRuns[q] BY TestRunsAreFresh
  <2>3. \A i \in DOMAIN Training[v][f] : Training[v][f][i] \in RequestRuns[Submission[v]] BY <2>1
  <2> QED BY <2>1, <2>2, <2>3 DEF Range
<1> QED BY <1>1, <1>2

\* A validation whose own state stays keeps its invariant while the rows go on.
LEMMA Elsewhere ==
  ASSUME NEW v \in Validations, ValidationInv(v), UNCHANGED Own(v), RowsGoOn, TestsRest(v), RequestGoesOn(v)
  PROVE  ValidationInv(v)'
<1> USE DEF ValidationInv
<1>0. /\ vCancel'[v] = vCancel[v] /\ fold'[v] = fold[v] /\ tested'[v] = tested[v] /\ selected'[v] = selected[v]
      /\ aggregate'[v] = aggregate[v] /\ coord'[v] = coord[v] /\ position'[v] = position[v] /\ view'[v] = view[v]
      /\ canceller'[v] = canceller[v] /\ seen'[v] = seen[v] /\ left'[v] = left[v]
  BY DEF Own
<1>1. Submitted(v)' BY <1>0, RunsOf DEF Submitted, RowsGoOn, RequestGoesOn
<1>2. Placed(v)' BY <1>0 DEF Placed
<1>3. TestKnown(v)'
  <2>1. \A f \in 1 .. Folds[v] : Test[v][f] \in Runs BY RunsOf
  <2>2. coord[v] \in {"submit", "withdraw", "settle"} => position[v] \in 1 .. Folds[v] BY RunsOf DEF Placed, AtFold
  <2>3. /\ \A f \in 1 .. Folds[v] : f \notin tested[v] => status'[Test[v][f]] = "absent" /\ job'[Test[v][f]] = "none"
        /\ \A f \in tested[v] : status'[Test[v][f]] # "absent"
    BY <2>1 DEF TestKnown, Placed, TestsRest, RowsGoOn
  <2>4. coord[v] \in {"submit", "withdraw"} =>
          status'[Test[v][position[v]]] \in Waiting /\ job'[Test[v][position[v]]] = "none"
    BY <2>2 DEF TestKnown, TestsRest
  <2>5. coord[v] = "withdraw" => (status'[Test[v][position[v]]] = "QUEUED" => cancel'[Test[v][position[v]]])
    BY <2>1, <2>2 DEF TestKnown, RowsGoOn, Waiting, Terminal
  <2>6. coord[v] = "settle" =>
          /\ status'[Test[v][position[v]]] \in Terminal
          /\ Test[v][position[v]] \notin revised' => view[v].result = status'[Test[v][position[v]]]
    BY <2>1, <2>2 DEF TestKnown, RowsGoOn, Kept
  <2> QED BY <1>0, <2>3, <2>4, <2>5, <2>6 DEF TestKnown
<1>4. \A f \in 1 .. Folds[v] : TrainingEnded(v, f) =>
         /\ TrainingEnded(v, f)' /\ \A r \in Range(Training[v][f]) \ revised' : status'[r] = status[r] /\ r \notin revised
  BY RunsOf DEF TrainingEnded, RowsGoOn, Kept
<1>5. Trained(v)'
  <2>1. ASSUME NEW f \in tested[v]
        PROVE  TrainingEnded(v, f)' /\ selected'[v][f] \in DOMAIN Training[v][f] /\ Unbeaten(v, f, selected[v][f])'
    <3>1. f \in 1 .. Folds[v] /\ TrainingEnded(v, f) BY DEF Placed, Trained
    <3>2. \A r \in Range(Training[v][f]) \ revised' : status'[r] = status[r] /\ r \notin revised BY <1>4, <3>1
    <3>3. selected[v][f] \in DOMAIN Training[v][f] /\ Unbeaten(v, f, selected[v][f]) BY DEF Trained
    <3>4. Training[v][f][selected[v][f]] \in Range(Training[v][f]) BY <3>3 DEF Range
    <3> QED BY <1>0, <1>4, <3>1, <3>2, <3>3, <3>4 DEF Unbeaten
  <2>2. ASSUME (coord[v] = "choose" /\ ~ vCancel[v]) \/ coord[v] = "test"
        PROVE  TrainingEnded(v, position[v])' /\ ViewIsRight(v)'
    <3>1. position[v] \in 1 .. Folds[v] /\ TrainingEnded(v, position[v]) /\ ViewIsRight(v)
      BY <2>2, RunsOf DEF Trained, Placed, AtFold
    <3> QED BY <1>0, <1>4, <3>1 DEF ViewIsRight, TrainingEnded
  <2>3. coord[v] = "test" => Eligible(v, view[v].complete)' # {} BY <1>0 DEF Trained, Eligible, Here
  <2> QED BY <1>0, <2>1, <2>2, <2>3 DEF Trained
<1>a. \A f \in 1 .. Folds[v] : TestCompleted(v, f) => TestCompleted(v, f)'
  BY <1>0, RunsOf DEF TestCompleted, RowsGoOn, Kept, Terminal
<1>6. Folded(v)' BY <1>0, <1>a DEF Folded
<1>7. \A f \in 1 .. Folds[v] : Reached(v, f) => Reached(v, f)'
  BY RunsOf DEF Reached, RowsGoOn
<1>8. \A f \in 1 .. Folds[v] : \A live : Noted(v, f, live) => Noted(v, f, live)'
  BY RunsOf DEF Noted, RowsGoOn
<1>9. Stopped(v)'
  <2>1. coord[v] \in {"choose", "cancelRuns", "cancelFold"} => position[v] \in 1 .. Folds[v] BY RunsOf DEF Placed, AtFold
  <2>2. \A f \in 1 .. Folds[v] : f < position[v] =>
          Reached(v, f)' /\ (f \in tested[v] => status'[Test[v][f]] \in Terminal)
    BY <1>7, RunsOf DEF Stopped, RowsGoOn
  <2>3. \A f \in 1 .. Folds[v] :
          coord[v] \notin Broken /\ f >= position[v] /\ fold[v][f] \in Ended => Reached(v, f)'
    BY <1>7 DEF Stopped
  <2>4. \A f \in 1 .. Folds[v] :
          /\ <<f, "runs">> \in canceller[v] => Noted(v, f, seen[v][f].live)'
          /\ <<f, "fold">> \in canceller[v] /\ <<f, "runs">> \notin canceller[v] => Reached(v, f)'
    <3> SUFFICES ASSUME NEW f \in 1 .. Folds[v]
                 PROVE  /\ <<f, "runs">> \in canceller[v] => Noted(v, f, seen[v][f].live)'
                        /\ <<f, "fold">> \in canceller[v] /\ <<f, "runs">> \notin canceller[v] => Reached(v, f)'
      OBVIOUS
    <3>1. Noted(v, f, seen[v][f].live) => Noted(v, f, seen[v][f].live)' BY <1>0, RunsOf DEF Noted, RowsGoOn
    <3> QED BY <1>7, <3>1 DEF Stopped
  <2>5. coord[v] \in {"choose", "cancelRuns"} =>
          /\ Noted(v, position[v], view[v].live)'
          /\ view[v].status \in Ended => fold[v][position[v]] \in Ended /\ Reached(v, position[v])'
    <3> HAVE coord[v] \in {"choose", "cancelRuns"}
    <3>1. Noted(v, position[v], view[v].live) => Noted(v, position[v], view[v].live)'
      BY <1>0, <2>1, RunsOf DEF Noted, RowsGoOn
    <3>2. Reached(v, position[v]) => Reached(v, position[v])' BY <1>0, <1>7, <2>1 DEF Reached
    <3> QED BY <3>1, <3>2 DEF Stopped
  <2>6. coord[v] = "cancelFold" => Reached(v, position[v])' BY <1>0, <1>7, <2>1 DEF Stopped, Reached
  <2> QED BY <1>0, <2>2, <2>3, <2>4, <2>5, <2>6 DEF Stopped, Reached, Noted
<1> QED BY <1>1, <1>2, <1>3, <1>5, <1>6, <1>9

\* What a step does to the rows is a step of their life, and keeps what the queue relies on.
LifeGoesOn == LifeInv' /\ Kept /\ [Life!Next]_(Life!lifeVars)

OthersRest == \A w \in Validations : TestsRest(w) /\ RequestGoesOn(w)

\* A final status that gives way to another is remembered.
LEMMA RevisedKept == Revise \/ UNCHANGED <<status, revised>> => Kept
  BY DEF Revise, Kept

\* The life of the rows has no way back from an end.
LEMMA RowsOfLife ==
  ASSUME LifeInv, Kept, [Life!Next]_(Life!lifeVars)
  PROVE  RowsGoOn
<1>1. status \in [Runs -> Life!Statuses] /\ cancel \in [Runs -> BOOLEAN] BY DEF LifeInv, RowTypes
<1> USE DEF RowsGoOn, Terminal, Active
<1>2. CASE UNCHANGED Life!lifeVars BY <1>2 DEF Life!lifeVars
<1>3. CASE Life!Create BY <1>1, <1>3 DEF Life!Create
<1>4. CASE Life!AskCancel BY <1>1, <1>4 DEF Life!AskCancel
<1>5. CASE \E r \in Runs : Life!Begin(r) BY <1>1, <1>5 DEF Life!Begin
<1>6. CASE \E r \in Runs : \E outcome \in Life!Terminal : Life!End(r, outcome)
  BY <1>1, <1>6 DEF Life!End, Life!Terminal
<1>7. CASE Life!Interrupt BY <1>1, <1>7 DEF Life!Interrupt, Life!Active
<1> QED BY <1>2, <1>3, <1>4, <1>5, <1>6, <1>7 DEF Life!Next

\* A step that touches no thread or request, and no row but to ask for its cancel.
LEMMA QuietRows ==
  ASSUME LifeInv, UNCHANGED <<status, job, home, futures, queue, request, server, revised>>,
         cancel' \in [Runs -> BOOLEAN],
         \A r \in Runs : cancel'[r] = cancel[r] \/ (cancel'[r] /\ status[r] \in Active)
  PROVE  LifeGoesOn /\ OthersRest
<1>1. LifeInv' BY SameLife DEF LifeInv, RowTypes
<1>2. Life!AskCancel BY DEF Life!AskCancel, Life!Active, Active
<1>3. Kept BY RevisedKept
<1>4. OthersRest BY DEF OthersRest, TestsRest, RequestGoesOn
<1> QED BY <1>1, <1>2, <1>3, <1>4 DEF LifeGoesOn, Life!Next

\* A step that writes neither a row nor a cancel.
LEMMA StillRows ==
  ASSUME LifeInv, UNCHANGED <<rows, job, home, futures, queue, request, server, revised>>
  PROVE  LifeGoesOn /\ OthersRest
<1>1. cancel' \in [Runs -> BOOLEAN] /\ UNCHANGED <<status, cancel>> BY DEF LifeInv, RowTypes, rows
<1> QED BY <1>1, QuietRows

\* The threads of the runner go on.
LEMMA ThreadRows ==
  ASSUME LifeInv, NEW r \in Runs, WorkerStep(r) \/ LeaseRefused(r) \/ EngineFails(r), Revise
  PROVE  LifeGoesOn /\ OthersRest
<1>0. WorkerStep(r) \/ WorkerFault(r) BY DEF WorkerFault
<1>1. LifeInv' /\ [Life!Next]_(Life!lifeVars) BY <1>0, ThreadLife
<1>2. status \in [Runs -> Life!Statuses] /\ job \in [Runs -> {"none", "queued", "done"} \cup AtWork \cup Dropped]
  BY DEF LifeInv, RowTypes
<1>3. /\ job[r] \in AtWork /\ request' = request
      /\ \E to : job' = [job EXCEPT ![r] = to]
      /\ status' = status \/ \E outcome \in {"RUNNING", "COMPLETE", "FAILED", "CANCELLED"} : status' = [status EXCEPT ![r] = outcome]
  <2>1. CASE EnterLease(r) BY <2>1 DEF EnterLease, Step, Finish, AtWork, requests
  <2>2. CASE BeginEngine(r)
    <3>1. status' = [status EXCEPT ![r] = IF status[r] = "QUEUED" THEN "RUNNING" ELSE status[r]] BY <2>2 DEF BeginEngine
    <3>2. CASE status[r] = "QUEUED" BY <2>2, <3>1, <3>2 DEF BeginEngine, Step, AtWork, requests
    <3>3. CASE status[r] # "QUEUED"
      <4>1. status' = status BY <1>2, <3>1, <3>3
      <4> QED BY <2>2, <4>1 DEF BeginEngine, Step, AtWork, requests
    <3> QED BY <3>2, <3>3
  <2>3. CASE RunSymbol(r) BY <2>3 DEF RunSymbol, Step, Finish, AtWork, requests
  <2>4. CASE CompleteRun(r) BY <2>4 DEF CompleteRun, Step, Finish, AtWork, requests
  <2>5. CASE PopFuture(r) \/ ReadBack(r) BY <2>5 DEF PopFuture, ReadBack, Step, AtWork, requests
  <2>6. CASE LeaseRefused(r) BY <2>6 DEF LeaseRefused, Step, AtWork, requests
  <2>7. CASE EngineFails(r) BY <2>7 DEF EngineFails, Step, Finish, AtWork, requests
  <2> QED BY <2>1, <2>2, <2>3, <2>4, <2>5, <2>6, <2>7 DEF WorkerStep
<1>4. Kept BY RevisedKept
<1>5. OthersRest
  <2> SUFFICES ASSUME NEW w \in Validations, NEW f \in 1 .. Folds[w], job[Test[w][f]] = "none"
               PROVE  job'[Test[w][f]] = "none" /\ status'[Test[w][f]] = status[Test[w][f]]
    BY <1>3 DEF OthersRest, TestsRest, RequestGoesOn
  <2>1. Test[w][f] # r /\ Test[w][f] \in Runs BY <1>3, RunsOf DEF AtWork
  <2> QED BY <1>2, <1>3, <2>1
<1> QED BY <1>1, <1>4, <1>5 DEF LifeGoesOn

LEMMA TakeRows ==
  ASSUME LifeInv, NEW c \in Containers, Take(c), Revise
  PROVE  LifeGoesOn /\ OthersRest
<1>1. LifeInv' BY TakeLife
<1>2. UNCHANGED <<status, cancel, request>> BY DEF Take, requests
<1>3. queue[c] \in Seq(Runs) /\ queue[c] # <<>> BY DEF Take, LifeInv, RowTypes
<1>4. 1 \in 1 .. Len(queue[c]) /\ Head(queue[c]) = queue[c][1] BY <1>3
<1>5. job[Head(queue[c])] = "queued" /\ job' = [job EXCEPT ![Head(queue[c])] = "lease"]
  BY <1>4 DEF Take, LifeInv, QueuesAreApart
<1>6. OthersRest
  <2> SUFFICES ASSUME NEW w \in Validations, NEW f \in 1 .. Folds[w], job[Test[w][f]] = "none"
               PROVE  job'[Test[w][f]] = "none"
    BY <1>2 DEF OthersRest, TestsRest, RequestGoesOn
  <2>1. Test[w][f] # Head(queue[c]) BY <1>5
  <2> QED BY <1>5, <2>1
<1> QED BY <1>1, <1>2, <1>6, RevisedKept DEF LifeGoesOn, Life!lifeVars

\* A container that starts takes the runs that wait for dead, and nothing else.
LEMMA StartRows ==
  ASSUME LifeInv, NEW c \in Containers, StartBeside(c)
  PROVE  LifeGoesOn /\ OthersRest
<1>1. StartContainer(c) /\ UNCHANGED <<job, request, revised>> BY DEF StartBeside, StartContainer, requests
<1>2. LifeInv' /\ [Life!Next]_(Life!lifeVars) BY <1>1, StartLife DEF Life!Next
<1>3. \A r \in Runs : status'[r] = IF status[r] \in Active THEN "INTERRUPTED" ELSE status[r]
  BY <1>1 DEF StartContainer, InterruptStale
<1>4. Kept BY <1>1, <1>3 DEF Kept, Active, Terminal
<1>5. OthersRest BY <1>1, <1>3, RunsOf DEF OthersRest, TestsRest, RequestGoesOn, Waiting, Active
<1> QED BY <1>2, <1>4, <1>5 DEF LifeGoesOn

\* The end of the process touches no row; what was not submitted it does not know.
LEMMA EndRows ==
  ASSUME LifeInv, NEW c \in Containers, EndProcess(c), UNCHANGED revised
  PROVE  LifeGoesOn /\ OthersRest
<1>1. LifeInv' /\ UNCHANGED <<status, cancel>> BY EndLife
<1>2. OthersRest
  <2>1. \A q \in Requests : request'[q] = request[q] \/ (request[q] \in {"reserved", "created"} /\ request'[q] = "failed")
    BY DEF EndProcess
  <2>2. ASSUME NEW w \in Validations, NEW f \in 1 .. Folds[w], job[Test[w][f]] = "none"
        PROVE  job'[Test[w][f]] = "none"
    <3>1. Test[w][f] \in Runs /\ Test[w][f] \notin futures[c] BY <2>2, RunsOf DEF LifeInv, QueuesAreApart
    <3> QED BY <2>2, <3>1 DEF EndProcess
  <2>3. \A w \in Validations : RequestGoesOn(w) BY <2>1, RunsOf DEF RequestGoesOn
  <2> QED BY <1>1, <2>2, <2>3 DEF OthersRest, TestsRest
<1> QED BY <1>1, <1>2, RevisedKept DEF LifeGoesOn, Life!lifeVars

\* The request of a validation: its rows, its place in the queue, its failure.
LEMMA RequestRows ==
  ASSUME LifeInv, NEW v \in Validations,
         \/ BeginSubmission(v)
         \/ CreateValidation(v) \/ SubmitValidation(v) \/ SubmissionFails(v)
  PROVE  /\ LifeGoesOn
         /\ \A w \in Validations : TestsRest(w) /\ (w # v \/ ~ CreateValidation(v) => RequestGoesOn(w))
<1> DEFINE q == Submission[v]
<1>1. q \in Requests /\ \A w \in Validations : Submission[w] \in Requests /\ (w # v => Submission[w] # q)
  BY ValidationsAreSubmitted
<1>2. \A w \in Validations : \A f : f \in 1 .. Folds[w] => Test[w][f] \in Runs \ RequestRuns[q]
  BY <1>1, RunsOf
<1>3. request \in [Requests -> {"idle", "reserved", "created", "answered", "refused", "failed"}]
  BY DEF LifeInv, RowTypes
<1>r. UNCHANGED revised BY DEF BeginSubmission, CreateValidation, SubmitValidation, SubmissionFails
<1> HIDE DEF q
<1>4. CASE BeginSubmission(v)
  <2>1. CASE BeginRequest(q, First)
    <3>1. LifeInv' /\ [Life!Next]_(Life!lifeVars) BY <1>1, <2>1, RequestLife, FirstIsAContainer DEF RequestStep
    <3>2. /\ UNCHANGED <<status, job>> /\ request[q] = "idle"
          /\ request' = [request EXCEPT ![q] = "reserved"] \/ request' = [request EXCEPT ![q] = "refused"]
      BY <2>1 DEF BeginRequest
    <3>3. \A w \in Validations : TestsRest(w) /\ RequestGoesOn(w)
      BY <1>1, <1>3, <3>2 DEF TestsRest, RequestGoesOn, q
    <3> QED BY <1>r, <3>1, <3>2, <3>3, RevisedKept DEF LifeGoesOn
  <2>2. CASE ~ BeginRequest(q, First)
    <3>1. /\ request[q] = "idle" /\ request' = [request EXCEPT ![q] = "refused"] /\ UNCHANGED <<rows, memory, server>>
      BY <1>4, <2>2 DEF BeginSubmission, q
    <3>2. /\ request' \in [Requests -> {"idle", "reserved", "created", "answered", "refused", "failed"}]
          /\ \A p \in Requests : request'[p] \in {"idle", "reserved", "created"} => request'[p] = request[p]
      BY <1>3, <3>1
    <3>3. LifeInv' BY <3>1, <3>2, SameLife DEF rows, memory, LifeInv, RowTypes
    <3>4. \A w \in Validations : TestsRest(w) /\ RequestGoesOn(w)
      BY <1>1, <1>3, <3>1 DEF TestsRest, RequestGoesOn, q, rows, memory
    <3> QED BY <1>r, <3>1, <3>3, <3>4, RevisedKept DEF LifeGoesOn, rows, Life!lifeVars
  <2> QED BY <2>1, <2>2
<1>5. CASE CreateValidation(v)
  <2>1. CreateRows(q) BY <1>5 DEF CreateValidation, q
  <2>2. LifeInv' /\ [Life!Next]_(Life!lifeVars) BY <1>1, <2>1, CreateLife
  <2>3. /\ job' = job
        /\ status' = status \/ status' = [r \in Runs |-> IF r \in RequestRuns[q] THEN "QUEUED" ELSE status[r]]
        /\ \E to : request' = [request EXCEPT ![q] = to]
    BY <2>1 DEF CreateRows
  <2>4. Kept
    <3>1. RequestRuns[q] \subseteq Runs BY RunsOf DEF q
    <3>2. \A r \in RequestRuns[q] : status[r] = "absent" BY <1>1, <2>1, <3>1 DEF CreateRows, LifeInv, RequestsAreFirst
    <3> QED BY <1>r, <2>3, <3>2 DEF Kept, Terminal
  <2>5. \A w \in Validations : TestsRest(w) BY <1>2, <2>3 DEF TestsRest
  <2>6. \A w \in Validations : w # v => RequestGoesOn(w) BY <1>1, <1>3, <2>3 DEF RequestGoesOn
  <2> QED BY <1>5, <2>2, <2>4, <2>5, <2>6 DEF LifeGoesOn
<1>6. CASE SubmitValidation(v)
  <2>1. SubmitRuns(q) BY <1>6 DEF SubmitValidation, q
  <2>2. LifeInv' BY <1>1, <2>1, SubmitLife
  <2>3. /\ job' = [r \in Runs |-> IF r \in RequestRuns[q] THEN "queued" ELSE job[r]]
        /\ UNCHANGED <<status, cancel>> /\ request[q] = "created" /\ request' = [request EXCEPT ![q] = "answered"]
    BY <2>1 DEF SubmitRuns, Enqueue
  <2>4. \A w \in Validations : TestsRest(w) BY <1>2, <2>3 DEF TestsRest
  <2>5. \A w \in Validations : RequestGoesOn(w) BY <1>1, <1>3, <2>3 DEF RequestGoesOn, q
  <2> QED BY <1>r, <2>2, <2>3, <2>4, <2>5, RevisedKept DEF LifeGoesOn, Life!lifeVars
<1>7. CASE SubmissionFails(v)
  <2>1. RequestFails(q) BY <1>7 DEF SubmissionFails, q
  <2>2. LifeInv' /\ [Life!Next]_(Life!lifeVars) BY <1>1, <2>1, RequestLife
  <2>3. /\ UNCHANGED <<status, job>> /\ request[q] \in {"reserved", "created"}
        /\ request' = [request EXCEPT ![q] = "failed"]
    BY <2>1 DEF RequestFails
  <2>4. \A w \in Validations : TestsRest(w) /\ RequestGoesOn(w)
    BY <1>1, <1>3, <2>3 DEF TestsRest, RequestGoesOn, q
  <2> QED BY <1>r, <2>2, <2>3, <2>4, RevisedKept DEF LifeGoesOn
<1> QED BY <1>4, <1>5, <1>6, <1>7

\* Every test run but the one the coordinator of v is at rests.
OtherTestsRest(v) ==
    \A w \in Validations : \A f \in 1 .. Folds[w] :
        (w # v \/ f # position[v]) =>
            /\ status'[Test[w][f]] = status[Test[w][f]]
            /\ job[Test[w][f]] = "none" => job'[Test[w][f]] = "none"

LEMMA TestRunIsOwn ==
  ASSUME NEW v \in Validations, Placed(v), coord[v] \in {"test", "submit", "withdraw", "await"}
  PROVE  /\ position[v] \in 1 .. Folds[v] /\ Test[v][position[v]] \in Runs
         /\ \A q \in Requests : Test[v][position[v]] \notin RequestRuns[q]
         /\ \A w \in Validations : \A f \in 1 .. Folds[w] :
              (w # v \/ f # position[v]) => Test[w][f] # Test[v][position[v]]
<1>1. position[v] \in 1 .. Folds[v] BY RunsOf DEF Placed, AtFold
<1> QED BY <1>1, RunsOf, TestRunsAreFresh

\* The row of a test run: inserted QUEUED, or CANCELLED before it was submitted.
LEMMA TestRowWritten ==
  ASSUME LifeInv, NEW v \in Validations, Placed(v), TestKnown(v),
         CreateTestRun(v) \/ WithdrawTestRun(v)
  PROVE  LifeGoesOn /\ OtherTestsRest(v) /\ UNCHANGED <<cancel, job, request>>
<1> DEFINE t == Test[v][position[v]]
<1>0. coord[v] \in {"test", "submit", "withdraw", "await"} BY DEF CreateTestRun, WithdrawTestRun, Goto
<1>1. t \in Runs /\ (\A q \in Requests : t \notin RequestRuns[q]) /\ position[v] \in 1 .. Folds[v]
  BY <1>0, TestRunIsOwn
<1>2. job[t] = "none"
  BY <1>1 DEF CreateTestRun, WithdrawTestRun, Goto, TestKnown, Placed, BeforeTest
<1>3. UNCHANGED <<cancel, job, home, futures, queue, request, server>>
  BY DEF CreateTestRun, WithdrawTestRun, memory, requests
<1>4. \/ status' = [status EXCEPT ![t] = "QUEUED"] /\ status[t] = "absent"
      \/ /\ status' = [status EXCEPT ![t] = "CANCELLED"]
         /\ status[t] = "INTERRUPTED" \/ (status[t] = "QUEUED" /\ cancel[t])
  <2>1. CASE CreateTestRun(v) BY <1>1, <2>1 DEF CreateTestRun, Goto, TestKnown, Placed, BeforeTest, Here
  <2>2. CASE WithdrawTestRun(v) BY <1>1, <2>2 DEF WithdrawTestRun, Goto, TestKnown, Waiting, Here, Finish
  <2> QED BY <2>1, <2>2
<1>5. status \in [Runs -> Life!Statuses] BY DEF LifeInv, RowTypes
<1>a. OtherTestsRest(v)
  <2> SUFFICES ASSUME NEW w \in Validations, NEW f \in 1 .. Folds[w], w # v \/ f # position[v]
               PROVE  status'[Test[w][f]] = status[Test[w][f]]
    BY <1>3 DEF OtherTestsRest
  <2>1. Test[w][f] # t /\ Test[w][f] \in Runs BY <1>0, TestRunIsOwn, RunsOf
  <2> HIDE DEF t
  <2> QED BY <1>1, <1>4, <1>5, <2>1
<1> HIDE DEF t
<1>6. RowTypes' BY <1>1, <1>3, <1>4 DEF LifeInv, RowTypes, Life!Statuses, Life!Active, Life!Terminal
<1>7. RequestsAreFirst' BY <1>1, <1>3, <1>4, <1>5 DEF LifeInv, RequestsAreFirst
<1>8. ThreadsKnowRows' BY <1>1, <1>2, <1>3, <1>4, <1>5 DEF LifeInv, ThreadsKnowRows
<1>9. QueuesAreApart' BY <1>3 DEF LifeInv, QueuesAreApart
<1>b. Life!Next
  <2>1. CASE status' = [status EXCEPT ![t] = "QUEUED"] /\ status[t] = "absent"
    <3>1. Life!Create BY <1>1, <1>3, <1>5, <2>1 DEF Life!Create, Life!Statuses, Life!Active
    <3> QED BY <3>1 DEF Life!Next
  <2>2. CASE /\ status' = [status EXCEPT ![t] = "CANCELLED"]
             /\ status[t] = "INTERRUPTED" \/ (status[t] = "QUEUED" /\ cancel[t])
    <3>1. Life!End(t, "CANCELLED") BY <1>1, <1>3, <2>2 DEF Life!End, Life!Terminal
    <3> QED BY <1>1, <3>1 DEF Life!Next, Life!Terminal
  <2> QED BY <1>4, <2>1, <2>2
<1>c. Kept
  <2>1. CASE CreateTestRun(v)
    <3>1. UNCHANGED revised /\ status' = [status EXCEPT ![t] = "QUEUED"] /\ status[t] = "absent"
      BY <1>1, <2>1 DEF CreateTestRun, quiet, Goto, TestKnown, Placed, BeforeTest, Here, t
    <3> QED BY <1>5, <3>1 DEF Kept, Terminal
  <2>2. CASE WithdrawTestRun(v) BY <2>2, RevisedKept DEF WithdrawTestRun
  <2> QED BY <2>1, <2>2
<1> QED BY <1>3, <1>6, <1>7, <1>8, <1>9, <1>a, <1>b, <1>c DEF LifeGoesOn, LifeInv

\* A free slot: the test run enters the queue behind those that wait.
LEMMA TestRunSubmitted ==
  ASSUME LifeInv, NEW v \in Validations, Placed(v), TestKnown(v), SubmitTestRun(v)
  PROVE  LifeGoesOn /\ OtherTestsRest(v) /\ UNCHANGED <<status, request>>
<1> DEFINE t == Test[v][position[v]]
           c == server[Submission[v]]
<1>0. coord[v] = "submit" BY DEF SubmitTestRun
<1>1. t \in Runs /\ (\A q \in Requests : t \notin RequestRuns[q]) /\ position[v] \in 1 .. Folds[v]
  BY <1>0, TestRunIsOwn
<1>2. job[t] = "none" /\ status[t] \in Waiting BY <1>0 DEF TestKnown
<1>3. UNCHANGED <<status, request, server, revised>> BY DEF SubmitTestRun, requests, quiet
<1>4. CASE vCancel[v]
  <2>1. UNCHANGED memory /\ cancel' = [cancel EXCEPT ![t] = cancel[t] \/ status[t] \in Active]
    BY <1>4 DEF SubmitTestRun, Here
  <2>2. cancel \in [Runs -> BOOLEAN] BY DEF LifeInv, RowTypes
  <2>3. /\ cancel' \in [Runs -> BOOLEAN]
        /\ \A r \in Runs : cancel'[r] = cancel[r] \/ (cancel'[r] /\ status[r] \in Active)
    <3> HIDE DEF t
    <3>1. CASE status[t] \in Active
      <4>1. cancel' = [cancel EXCEPT ![t] = TRUE] BY <2>1, <3>1
      <4> QED BY <1>1, <2>2, <3>1, <4>1
    <3>2. CASE status[t] \notin Active
      <4>1. cancel' = [cancel EXCEPT ![t] = cancel[t]] BY <1>1, <2>1, <2>2, <3>2
      <4> QED BY <1>1, <2>2, <4>1
    <3> QED BY <3>1, <3>2
  <2>4. LifeGoesOn BY <1>3, <2>1, <2>3, QuietRows DEF memory
  <2>5. OtherTestsRest(v) BY <1>3, <2>1 DEF OtherTestsRest, memory
  <2> QED BY <1>3, <2>4, <2>5
<1>5. CASE ~ vCancel[v]
  <2>1. /\ UNCHANGED cancel
        /\ futures' = [futures EXCEPT ![c] = @ \cup {t}]
        /\ queue' = [queue EXCEPT ![c] = Append(@, t)]
        /\ job' = [job EXCEPT ![t] = "queued"]
        /\ home' = [home EXCEPT ![t] = c]
    BY <1>5 DEF SubmitTestRun, Here
  <2>a. OtherTestsRest(v)
    <3> SUFFICES ASSUME NEW w \in Validations, NEW f \in 1 .. Folds[w], w # v \/ f # position[v], job[Test[w][f]] = "none"
                 PROVE  job'[Test[w][f]] = "none"
      BY <1>3 DEF OtherTestsRest
    <3>1. Test[w][f] # t BY <1>0, TestRunIsOwn
    <3> QED BY <2>1, <3>1
  <2> USE DEF LifeInv
  <2> HIDE DEF t, c
  <2>0. c \in Containers \cup {None}
    <3>1. Submission[v] \in Requests BY ValidationsAreSubmitted
    <3> QED BY <3>1 DEF RowTypes, c
  <2>2. RowTypes'
    <3>1. queue \in [Containers -> Seq(Runs)] BY DEF RowTypes
    <3>2. c \in Containers => Append(queue[c], t) \in Seq(Runs) BY <1>1, <3>1
    <3>3. queue' \in [Containers -> Seq(Runs)] BY <2>1, <3>1, <3>2
    <3>4. futures' \in [Containers -> SUBSET Runs] BY <1>1, <2>1 DEF RowTypes
    <3> QED BY <1>1, <1>3, <2>0, <2>1, <3>3, <3>4 DEF RowTypes
  <2>3. RequestsAreFirst' BY <1>1, <1>3, <2>1 DEF RequestsAreFirst, RowTypes
  <2>4. ThreadsKnowRows' BY <1>1, <1>2, <1>3, <2>1 DEF ThreadsKnowRows, RowTypes, Waiting
  <2>5. QueuesAreApart'
    <3>1. ASSUME NEW d \in Containers, NEW i \in 1 .. Len(queue'[d])
          PROVE  /\ job'[queue'[d][i]] = "queued" /\ home'[queue'[d][i]] = d
                 /\ \A j \in 1 .. Len(queue'[d]) : queue'[d][i] = queue'[d][j] => i = j
      <4>0. queue[d] \in Seq(Runs) BY DEF RowTypes
      <4>1. \A k \in 1 .. Len(queue[d]) : /\ queue[d][k] \in Runs \ {t}
                                          /\ job[queue[d][k]] = "queued" /\ home[queue[d][k]] = d
                                          /\ \A l \in 1 .. Len(queue[d]) : queue[d][k] = queue[d][l] => k = l
        BY <1>2, <4>0 DEF QueuesAreApart
      <4>2. CASE d # c
        <5>1. queue'[d] = queue[d] BY <2>1, <4>2 DEF RowTypes
        <5> QED BY <2>1, <4>1, <5>1 DEF RowTypes
      <4>3. CASE d = c
        <5>1. queue'[d] = Append(queue[d], t) BY <2>1, <4>3 DEF RowTypes
        <5>2. \A k \in 1 .. Len(queue'[d]) : \/ k \in 1 .. Len(queue[d]) /\ queue'[d][k] = queue[d][k]
                                             \/ k = Len(queue[d]) + 1 /\ queue'[d][k] = t
          BY <1>1, <4>0, <5>1
        <5> QED BY <1>1, <2>1, <4>1, <4>3, <5>2 DEF RowTypes
      <4> QED BY <4>2, <4>3
    <3>2. ASSUME NEW d \in Containers, NEW r \in futures'[d] PROVE home'[r] = d /\ job'[r] # "none"
      BY <1>1, <1>2, <2>1 DEF QueuesAreApart, RowTypes
    <3> QED BY <3>1, <3>2 DEF QueuesAreApart
  <2> QED BY <1>3, <2>1, <2>2, <2>3, <2>4, <2>5, <2>a, RevisedKept DEF LifeGoesOn, Life!lifeVars
<1> QED BY <1>4, <1>5

-----------------------------------------------------------------------------
(* The steps of one validation.                                            *)

\* A step of v leaves the other validations alone.
LEMMA OwnOnly ==
  ASSUME Shapes, NEW v \in Validations,
         \/ CoordinatorStep(v) \/ CoordinatorRefused(v) \/ CoordinatorFails(v) \/ FailingFails(v)
         \/ CreateValidation(v) \/ SubmitValidation(v) \/ CancelValidation(v) \/ CancelStep(v)
  PROVE  Shapes' /\ \A w \in Validations : w # v => UNCHANGED Own(w)
<1> USE DEF Shapes, Own, Goto, NextFold, UpdateFold, quiet
<1>1. CASE BeginValidation(v) BY <1>1 DEF BeginValidation
<1>2. CASE ReadFold(v) BY <1>2 DEF ReadFold
<1>3. CASE MarkTraining(v) BY <1>3 DEF MarkTraining
<1>4. CASE WaitForTraining(v) BY <1>4 DEF WaitForTraining
<1>5. CASE ChooseCandidate(v) BY <1>5 DEF ChooseCandidate
<1>6. CASE CreateTestRun(v) BY <1>6 DEF CreateTestRun
<1>7. CASE SubmitTestRun(v) BY <1>7 DEF SubmitTestRun
<1>8. CASE WithdrawTestRun(v) BY <1>8 DEF WithdrawTestRun
<1>9. CASE WaitForRun(v) BY <1>9 DEF WaitForRun
<1>10. CASE SettleFold(v) BY <1>10 DEF SettleFold
<1>11. CASE CancelFoldRuns(v) BY <1>11 DEF CancelFoldRuns
<1>12. CASE CancelFold(v) BY <1>12 DEF CancelFold
<1>13. CASE FinishValidation(v) BY <1>13 DEF FinishValidation
<1>14. CASE FailFold(v) BY <1>14 DEF FailFold
<1>a. CASE FoldsFailed(v) BY <1>a DEF FoldsFailed
<1>b. CASE FailingFails(v) BY <1>b DEF FailingFails
<1>15. CASE CoordinatorRefused(v) BY <1>15 DEF CoordinatorRefused
<1>16. CASE CoordinatorFails(v) BY <1>16 DEF CoordinatorFails
<1>17. CASE CreateValidation(v) BY <1>17 DEF CreateValidation
<1>18. CASE SubmitValidation(v) BY <1>18 DEF SubmitValidation
<1>19. CASE CancelValidation(v) BY <1>19 DEF CancelValidation
<1>20. CASE CancelStep(v) BY <1>20 DEF CancelStep
<1> QED BY <1>1, <1>2, <1>3, <1>4, <1>5, <1>6, <1>7, <1>8, <1>9, <1>10, <1>11, <1>12, <1>13, <1>14, <1>15, <1>16, <1>17,
           <1>18, <1>19, <1>20, <1>a, <1>b DEF CoordinatorStep

\* What a fresh read of a fold shows.
LEMMA ReadIsRight ==
  ASSUME NEW v \in Validations, NEW f \in 1 .. Folds[v]
  PROVE  /\ Read(v, f).status = fold[v][f] /\ Noted(v, f, Read(v, f).live)
         /\ \A r \in Range(Training[v][f]) : r \in Read(v, f).complete <=> status[r] = "COMPLETE"
         /\ f \in tested[v] => Read(v, f).result = status[Test[v][f]]
  BY DEF Read, Children, Noted

\* The coordinator takes a validation up, or is refused it, or breaks off.
LEMMA OutsideStep ==
  ASSUME WfInv, NEW v \in Validations, BeginValidation(v) \/ CoordinatorRefused(v) \/ CoordinatorFails(v)
  PROVE  LifeGoesOn /\ OthersRest /\ ValidationInv(v)'
<1>1. UNCHANGED <<rows, job, home, futures, queue, request, server, revised>>
  BY DEF BeginValidation, CoordinatorRefused, CoordinatorFails, vars, memory, requests
<1>2. LifeGoesOn /\ OthersRest BY <1>1, StillRows DEF WfInv
<1>3. /\ UNCHANGED <<vCancel, fold, tested, selected, aggregate, position, view, seen, canceller>>
      /\ \/ coord[v] = "queued" /\ coord'[v] \in {"loop", "dropped"} /\ left'[v] = left[v]
         \/ /\ coord[v] \in AtFold \cup {"finish"} /\ coord'[v] = "failing"
            /\ left'[v] = {f \in 1 .. Folds[v] : fold[v][f] \notin Ended}
  <2>1. CASE CoordinatorFails(v) BY <2>1 DEF CoordinatorFails, quiet, WfInv, Shapes
  <2>2. CASE BeginValidation(v) \/ CoordinatorRefused(v)
    <3>1. coordQueue # <<>> /\ v = Head(coordQueue) /\ coordQueue \in Seq(Validations)
      BY <2>2 DEF BeginValidation, CoordinatorRefused, WfInv, Listed
    <3>2. v = coordQueue[1] /\ 1 \in 1 .. Len(coordQueue) BY <3>1
    <3>3. coord[v] = "queued" BY <3>2 DEF WfInv, Listed
    <3> QED BY <2>2, <3>3 DEF BeginValidation, CoordinatorRefused, WfInv, Shapes
  <2> QED BY <2>1, <2>2
<1>4. ValidationInv(v) BY DEF WfInv
<1>5. UNCHANGED <<status, cancel, job, request, revised>> BY <1>1 DEF rows
<1> USE DEF ValidationInv
<1>6. Submitted(v)' BY <1>3, <1>4, <1>5 DEF Submitted, AtFold
<1>7. Placed(v)' BY <1>3, <1>4, <1>5 DEF Placed, BeforeTest, WithTest, AtFold
<1>8. TestKnown(v)' BY <1>3, <1>4, <1>5 DEF TestKnown
<1>9. Trained(v)' BY <1>3, <1>4, <1>5 DEF Trained, TrainingEnded, Unbeaten
<1>10. Folded(v)' BY <1>3, <1>4, <1>5 DEF Folded, TestCompleted, AtFold
<1>11. Stopped(v)' BY <1>3, <1>4, <1>5 DEF Stopped, Broken, Reached, Noted, AtFold
<1> QED BY <1>2, <1>6, <1>7, <1>8, <1>9, <1>10, <1>11

\* A step of the coordinator that writes nothing but its own state.
LEMMA QuietCoordinator ==
  ASSUME WfInv, NEW v \in Validations,
         ReadFold(v) \/ MarkTraining(v) \/ WaitForTraining(v) \/ ChooseCandidate(v) \/ SettleFold(v)
         \/ CancelFold(v) \/ FinishValidation(v) \/ FailFold(v) \/ FoldsFailed(v) \/ FailingFails(v)
  PROVE  /\ LifeGoesOn /\ OthersRest /\ UNCHANGED <<status, cancel, job, request, server, revised>>
         /\ UNCHANGED <<vCancel, tested, selected, seen, canceller>>
         /\ coord[v] # "failing" => left' = left
<1>1. UNCHANGED <<rows, job, home, futures, queue, request, server, revised>>
  BY DEF ReadFold, MarkTraining, WaitForTraining, ChooseCandidate, SettleFold, CancelFold, FinishValidation,
         FailFold, FoldsFailed, FailingFails, vars, memory, requests, quiet
<1>2. /\ UNCHANGED <<vCancel, tested, selected, seen, canceller>>
      /\ coord[v] # "failing" => left' = left
  BY DEF ReadFold, MarkTraining, WaitForTraining, ChooseCandidate, SettleFold, CancelFold, FinishValidation,
         FailFold, FoldsFailed, FailingFails, Goto, quiet
<1> QED BY <1>1, <1>2, StillRows DEF WfInv, rows

\* Each fold begins with a fresh read.
LEMMA ReadFoldStep ==
  ASSUME WfInv, NEW v \in Validations, ReadFold(v)
  PROVE  ValidationInv(v)'
<1> DEFINE p == position[v]
<1>1. /\ UNCHANGED <<status, cancel, job, request, server, revised>>
      /\ UNCHANGED <<vCancel, tested, selected, seen, canceller>>
      /\ coord[v] # "failing" => left' = left
  BY QuietCoordinator
<1>2. /\ UNCHANGED <<fold, aggregate>> /\ coord[v] = "loop" BY DEF ReadFold
<1>3. ValidationInv(v) /\ p \in Nat \ {0} /\ Folds[v] \in Nat BY RunsOf DEF WfInv, ValidationInv, Placed
<1>4. \/ p > Folds[v] /\ coord'[v] = "finish" /\ position'[v] = p /\ view'[v] = view[v]
      \/ /\ p \in 1 .. Folds[v] /\ view'[v] = Read(v, p)
         /\ \/ vCancel[v] /\ coord'[v] = "cancelRuns" /\ position'[v] = p
            \/ fold[v][p] \in Ended /\ coord'[v] = "loop" /\ position'[v] = p + 1
            \/ coord'[v] = "train" /\ position'[v] = p
  BY <1>3 DEF ReadFold, Goto, NextFold, Here, WfInv, Shapes
<1> HIDE DEF p
<1> USE DEF ValidationInv
<1>6. Submitted(v)' BY <1>1, <1>2, <1>3, <1>4 DEF Submitted
<1>7. Placed(v)' BY <1>1, <1>2, <1>3, <1>4 DEF Placed, BeforeTest, WithTest, AtFold, p
<1>8. TestKnown(v)' BY <1>1, <1>2, <1>3, <1>4 DEF TestKnown
<1>9. Trained(v)' BY <1>1, <1>2, <1>3, <1>4 DEF Trained, TrainingEnded, Unbeaten
<1>10. Folded(v)' BY <1>1, <1>2, <1>3, <1>4 DEF Folded, TestCompleted, p
<1>11. Stopped(v)'
  <2>1. p \in 1 .. Folds[v] /\ fold[v][p] \in Ended => Reached(v, p) BY <1>2, <1>3 DEF Stopped, Broken, p
  <2>2. p \in 1 .. Folds[v] => Noted(v, p, Read(v, p).live) /\ Read(v, p).status = fold[v][p]
    BY <1>3, ReadIsRight
  <2> QED BY <1>1, <1>2, <1>3, <1>4, <2>1, <2>2 DEF Stopped, Broken, Reached, Noted, Placed, BeforeTest, p
<1> QED BY <1>6, <1>7, <1>8, <1>9, <1>10, <1>11

LEMMA FoldWritten ==
  ASSUME Shapes, NEW v \in Validations, NEW f, NEW to, UpdateFold(v, f, to)
  PROVE  \A g \in 1 .. Folds[v] : fold'[v][g] = IF g = f THEN to ELSE fold[v][g]
  BY DEF UpdateFold, Shapes

\* The fold is TRAINING, whatever a cancel made of it meanwhile.
LEMMA MarkTrainingStep ==
  ASSUME WfInv, NEW v \in Validations, MarkTraining(v)
  PROVE  ValidationInv(v)'
<1> DEFINE p == position[v]
<1>1. /\ UNCHANGED <<status, cancel, job, request, server, revised>>
      /\ UNCHANGED <<vCancel, tested, selected, seen, canceller>>
      /\ coord[v] # "failing" => left' = left
  BY QuietCoordinator
<1>2. UNCHANGED <<aggregate, position, view>> /\ coord[v] = "train" /\ coord'[v] = "wait"
  BY DEF MarkTraining, Goto, WfInv, Shapes
<1>3. ValidationInv(v) /\ p \in 1 .. Folds[v] /\ Folds[v] \in Nat /\ 1 \in 1 .. Folds[v] /\ p \notin tested[v]
  BY <1>2, RunsOf DEF WfInv, ValidationInv, Placed, AtFold, BeforeTest
<1>4. \A f \in 1 .. Folds[v] : fold'[v][f] = IF f = p THEN "TRAINING" ELSE fold[v][f]
  BY FoldWritten DEF MarkTraining, Here, WfInv
<1> HIDE DEF p
<1> USE DEF ValidationInv
<1>6. Submitted(v)' BY <1>1, <1>2, <1>3, <1>4 DEF Submitted
<1>7. Placed(v)' BY <1>1, <1>2, <1>3, <1>4 DEF Placed, BeforeTest, WithTest, AtFold
<1>8. TestKnown(v)' BY <1>1, <1>2, <1>3, <1>4 DEF TestKnown
<1>9. Trained(v)' BY <1>1, <1>2, <1>3, <1>4 DEF Trained, TrainingEnded, Unbeaten
<1>10. Folded(v)' BY <1>1, <1>2, <1>3, <1>4 DEF Folded, TestCompleted, Ended, p
<1>11. Stopped(v)' BY <1>1, <1>2, <1>3, <1>4 DEF Stopped, Broken, Reached, Noted, Ended, p
<1> QED BY <1>6, <1>7, <1>8, <1>9, <1>10, <1>11

\* The poll ends with a read of the fold.
LEMMA WaitForTrainingStep ==
  ASSUME WfInv, NEW v \in Validations, WaitForTraining(v)
  PROVE  ValidationInv(v)'
<1> DEFINE p == position[v]
<1>1. /\ UNCHANGED <<status, cancel, job, request, server, revised>>
      /\ UNCHANGED <<vCancel, tested, selected, seen, canceller>>
      /\ coord[v] # "failing" => left' = left
  BY QuietCoordinator
<1>2. /\ UNCHANGED <<fold, aggregate, position>> /\ coord[v] = "wait" /\ coord'[v] = "choose"
      /\ view'[v] = Read(v, p) /\ (vCancel[v] \/ TrainingEnded(v, p))
  BY DEF WaitForTraining, Goto, WfInv, Shapes, Here, TrainingOver, TrainingEnded
<1>3. ValidationInv(v) /\ p \in 1 .. Folds[v] /\ Folds[v] \in Nat /\ p \notin tested[v]
  BY <1>2, RunsOf DEF WfInv, ValidationInv, Placed, AtFold, BeforeTest
<1>4. /\ Read(v, p).status = fold[v][p] /\ Noted(v, p, Read(v, p).live)
      /\ \A r \in Range(Training[v][p]) : r \in Read(v, p).complete <=> status[r] = "COMPLETE"
  BY <1>3, ReadIsRight
<1>5. fold[v][p] \in Ended => Reached(v, p) BY <1>2, <1>3 DEF ValidationInv, Stopped, Broken, p
<1> HIDE DEF p
<1> USE DEF ValidationInv
<1>6. Submitted(v)' BY <1>1, <1>2, <1>3 DEF Submitted
<1>7. Placed(v)' BY <1>1, <1>2, <1>3 DEF Placed, BeforeTest, WithTest, AtFold, p
<1>8. TestKnown(v)' BY <1>1, <1>2, <1>3 DEF TestKnown
<1>9. Trained(v)' BY <1>1, <1>2, <1>3, <1>4 DEF Trained, TrainingEnded, Unbeaten, ViewIsRight, p
<1>10. Folded(v)' BY <1>1, <1>2, <1>3 DEF Folded, TestCompleted, p
<1>11. Stopped(v)' BY <1>1, <1>2, <1>3, <1>4, <1>5 DEF Stopped, Broken, Reached, Noted, p
<1> QED BY <1>6, <1>7, <1>8, <1>9, <1>10, <1>11

\* A cancelled validation goes on to the cancel, one without a candidate to the next fold.
LEMMA ChooseCandidateStep ==
  ASSUME WfInv, NEW v \in Validations, ChooseCandidate(v)
  PROVE  ValidationInv(v)'
<1> DEFINE p == position[v]
<1>1. /\ UNCHANGED <<status, cancel, job, request, server, revised>>
      /\ UNCHANGED <<vCancel, tested, selected, seen, canceller>>
      /\ coord[v] # "failing" => left' = left
  BY QuietCoordinator
<1>2. UNCHANGED <<aggregate, view>> /\ coord[v] = "choose" BY DEF ChooseCandidate
<1>3. ValidationInv(v) /\ p \in 1 .. Folds[v] /\ Folds[v] \in Nat /\ p \notin tested[v] /\ 1 \in 1 .. Folds[v]
  BY <1>2, RunsOf DEF WfInv, ValidationInv, Placed, AtFold, BeforeTest
<1>4. \/ coord'[v] = "cancelRuns" /\ UNCHANGED <<fold, position>>
      \/ /\ coord'[v] = "test" /\ ~ vCancel[v] /\ Eligible(v, view[v].complete) # {}
         /\ UNCHANGED <<fold, position>>
      \/ /\ coord'[v] = "loop" /\ ~ vCancel[v] /\ position'[v] = p + 1
         /\ \A f \in 1 .. Folds[v] : fold'[v][f] = IF f = p THEN "FAILED" ELSE fold[v][f]
  BY FoldWritten DEF ChooseCandidate, Goto, NextFold, Here, WfInv, Shapes
<1>5. ~ vCancel[v] => Reached(v, p) BY <1>2, <1>3 DEF ValidationInv, Trained, TrainingEnded, Reached, p
<1> HIDE DEF p
<1> USE DEF ValidationInv
<1>6. Submitted(v)' BY <1>1, <1>2, <1>3, <1>4 DEF Submitted
<1>7. Placed(v)' BY <1>1, <1>2, <1>3, <1>4 DEF Placed, BeforeTest, WithTest, AtFold, p
<1>8. TestKnown(v)' BY <1>1, <1>2, <1>3, <1>4 DEF TestKnown
<1>9. Trained(v)'
  <2>1. Eligible(v, view[v].complete)' = Eligible(v, view[v].complete) \/ coord'[v] = "loop"
    BY <1>1, <1>2, <1>4 DEF Eligible, Here
  <2> QED BY <1>1, <1>2, <1>3, <1>4, <2>1 DEF Trained, TrainingEnded, Unbeaten, ViewIsRight
<1>10. Folded(v)' BY <1>1, <1>2, <1>3, <1>4 DEF Folded, TestCompleted, Ended, p
<1>11. Stopped(v)' BY <1>1, <1>2, <1>3, <1>4, <1>5 DEF Stopped, Broken, Reached, Noted, Ended, p
<1> QED BY <1>6, <1>7, <1>8, <1>9, <1>10, <1>11

\* The fold takes the outcome of its test run.
LEMMA SettleFoldStep ==
  ASSUME WfInv, NEW v \in Validations, SettleFold(v)
  PROVE  ValidationInv(v)'
<1> DEFINE p == position[v]
           to == IF view[v].result \in {"COMPLETE", "CANCELLED"} THEN view[v].result ELSE "FAILED"
<1>1. /\ UNCHANGED <<status, cancel, job, request, server, revised>>
      /\ UNCHANGED <<vCancel, tested, selected, seen, canceller>>
      /\ coord[v] # "failing" => left' = left
  BY QuietCoordinator
<1>2. /\ UNCHANGED <<aggregate, view>> /\ coord[v] = "settle" /\ coord'[v] = "loop" /\ position'[v] = p + 1
      /\ \A f \in 1 .. Folds[v] : fold'[v][f] = IF f = p THEN to ELSE fold[v][f]
  BY FoldWritten DEF SettleFold, NextFold, Goto, Here, WfInv, Shapes
<1>3. ValidationInv(v) /\ p \in 1 .. Folds[v] /\ Folds[v] \in Nat /\ p \in tested[v] /\ 1 \in 1 .. Folds[v]
  BY <1>2, RunsOf DEF WfInv, ValidationInv, Placed, AtFold, WithTest
<1>4. /\ to \in Ended /\ (to = "COMPLETE" => status[Test[v][p]] = "COMPLETE" \/ Test[v][p] \in revised)
      /\ status[Test[v][p]] \in Terminal /\ Reached(v, p)
  BY <1>2, <1>3 DEF ValidationInv, TestKnown, Trained, TrainingEnded, Reached, Ended
<1> HIDE DEF p, to
<1> USE DEF ValidationInv
<1>6. Submitted(v)' BY <1>1, <1>2, <1>3, <1>4 DEF Submitted, Ended
<1>7. Placed(v)' BY <1>1, <1>2, <1>3, <1>4 DEF Placed, BeforeTest, WithTest, AtFold, p
<1>8. TestKnown(v)' BY <1>1, <1>2, <1>3, <1>4 DEF TestKnown
<1>9. Trained(v)' BY <1>1, <1>2, <1>3, <1>4 DEF Trained, TrainingEnded, Unbeaten
<1>10. Folded(v)' BY <1>1, <1>2, <1>3, <1>4 DEF Folded, TestCompleted, p
<1>11. Stopped(v)' BY <1>1, <1>2, <1>3, <1>4 DEF Stopped, Broken, Reached, Noted, p
<1> QED BY <1>6, <1>7, <1>8, <1>9, <1>10, <1>11

\* Its runs are reached: the fold is CANCELLED, whatever became of it meanwhile.
LEMMA CancelFoldStep ==
  ASSUME WfInv, NEW v \in Validations, CancelFold(v)
  PROVE  ValidationInv(v)'
<1> DEFINE p == position[v]
<1>1. /\ UNCHANGED <<status, cancel, job, request, server, revised>>
      /\ UNCHANGED <<vCancel, tested, selected, seen, canceller>>
      /\ coord[v] # "failing" => left' = left
  BY QuietCoordinator
<1>2. /\ UNCHANGED <<aggregate, view>> /\ coord[v] = "cancelFold" /\ coord'[v] = "loop" /\ position'[v] = p + 1
      /\ \A f \in 1 .. Folds[v] : fold'[v][f] = IF f = p THEN "CANCELLED" ELSE fold[v][f]
  BY FoldWritten DEF CancelFold, NextFold, Goto, Here, WfInv, Shapes
<1>3. ValidationInv(v) /\ p \in 1 .. Folds[v] /\ Folds[v] \in Nat /\ p \notin tested[v] /\ 1 \in 1 .. Folds[v]
  BY <1>2, RunsOf DEF WfInv, ValidationInv, Placed, AtFold, BeforeTest
<1>4. Reached(v, p) BY <1>2, <1>3 DEF ValidationInv, Stopped
<1> HIDE DEF p
<1> USE DEF ValidationInv
<1>6. Submitted(v)' BY <1>1, <1>2, <1>3, <1>4 DEF Submitted
<1>7. Placed(v)' BY <1>1, <1>2, <1>3, <1>4 DEF Placed, BeforeTest, WithTest, AtFold, p
<1>8. TestKnown(v)' BY <1>1, <1>2, <1>3, <1>4 DEF TestKnown
<1>9. Trained(v)' BY <1>1, <1>2, <1>3, <1>4 DEF Trained, TrainingEnded, Unbeaten
<1>10. Folded(v)' BY <1>1, <1>2, <1>3, <1>4 DEF Folded, TestCompleted, Ended, p
<1>11. Stopped(v)' BY <1>1, <1>2, <1>3, <1>4 DEF Stopped, Broken, Reached, Noted, p
<1> QED BY <1>6, <1>7, <1>8, <1>9, <1>10, <1>11

\* The completed folds are counted, or those that are left fail one by one.
LEMMA EndStep ==
  ASSUME WfInv, NEW v \in Validations, FinishValidation(v) \/ FailFold(v) \/ FoldsFailed(v) \/ FailingFails(v)
  PROVE  ValidationInv(v)'
<1>1. /\ UNCHANGED <<status, cancel, job, request, server, revised>>
      /\ UNCHANGED <<vCancel, tested, selected, seen, canceller>>
      /\ coord[v] # "failing" => left' = left
  BY QuietCoordinator
<1>3. ValidationInv(v) /\ Folds[v] \in Nat /\ 1 \in 1 .. Folds[v] BY RunsOf DEF WfInv
<1>2. /\ UNCHANGED <<view, position>>
      /\ \/ /\ coord[v] = "finish" /\ coord'[v] = "done" /\ UNCHANGED fold
            /\ aggregate'[v] = {f \in 1 .. Folds[v] : fold[v][f] = "COMPLETE"}
         \/ /\ coord[v] = "failing" /\ UNCHANGED aggregate
            /\ \/ /\ coord'[v] = "failing"
                  /\ \E f \in left[v] :
                       /\ left'[v] = left[v] \ {f}
                       /\ \A g \in 1 .. Folds[v] : fold'[v][g] = IF g = f THEN "FAILED" ELSE fold[v][g]
               \/ coord'[v] = "failed" /\ UNCHANGED <<fold, left>> /\ left[v] = {}
               \/ coord'[v] = "abandoned" /\ UNCHANGED fold /\ left'[v] = {}
  <2>1. CASE FinishValidation(v) BY <2>1 DEF FinishValidation, Goto, WfInv, Shapes
  <2>2. CASE FailFold(v)
    <3>1. PICK f \in left[v] : UpdateFold(v, f, "FAILED") /\ left' = [left EXCEPT ![v] = @ \ {f}]
      BY <2>2 DEF FailFold
    <3>2. \A g \in 1 .. Folds[v] : fold'[v][g] = IF g = f THEN "FAILED" ELSE fold[v][g]
      BY <3>1, FoldWritten DEF WfInv
    <3>3. left'[v] = left[v] \ {f} BY <3>1 DEF WfInv, Shapes
    <3> QED BY <2>2, <3>2, <3>3 DEF FailFold
  <2>3. CASE FoldsFailed(v) BY <2>3 DEF FoldsFailed, Goto, WfInv, Shapes
  <2>4. CASE FailingFails(v) BY <2>4 DEF FailingFails, Goto, WfInv, Shapes
  <2> QED BY <2>1, <2>2, <2>3, <2>4
<1> USE DEF ValidationInv
<1>a. left[v] \subseteq 1 .. Folds[v] BY <1>3 DEF Placed
<1>6. Submitted(v)'
  <2>1. coord[v] # "none" /\ fold[v][1] # "absent" /\ \A f \in 1 .. Folds[v] : fold[v][f] # "absent" /\ fold'[v][f] # "absent"
    BY <1>2, <1>3 DEF Submitted
  <2> QED BY <1>1, <1>2, <1>3, <2>1 DEF Submitted
<1>7. Placed(v)'
  <2>1. left'[v] \subseteq 1 .. Folds[v] BY <1>1, <1>2, <1>a
  <2> QED BY <1>1, <1>2, <1>3, <2>1 DEF Placed, BeforeTest, WithTest, AtFold
<1>8. TestKnown(v)' BY <1>1, <1>2, <1>3 DEF TestKnown
<1>9. Trained(v)' BY <1>1, <1>2, <1>3 DEF Trained, TrainingEnded, Unbeaten
<1>10. Folded(v)'
  <2>1. \A f \in 1 .. Folds[v] : fold[v][f] \in Ended => fold'[v][f] \in Ended BY <1>2 DEF Ended
  <2>2. \A f \in 1 .. Folds[v] : fold'[v][f] = "COMPLETE" => fold[v][f] = "COMPLETE" BY <1>2
  <2>3. coord'[v] = "failing" => \A f \in (1 .. Folds[v]) \ left'[v] : fold'[v][f] \in Ended
    BY <1>2, <1>3, <1>a DEF Folded, Ended
  <2>4. coord'[v] = "failed" => \A f \in 1 .. Folds[v] : fold'[v][f] \in Ended BY <1>2, <1>3 DEF Folded
  <2>5. aggregate'[v] # None => \A f \in aggregate'[v] : f \in 1 .. Folds[v] /\ TestCompleted(v, f)
    BY <1>2, <1>3 DEF Folded
  <2> QED BY <1>1, <1>2, <1>3, <2>1, <2>2, <2>3, <2>4, <2>5 DEF Folded, TestCompleted
<1>11. Stopped(v)' BY <1>1, <1>2, <1>3 DEF Stopped, Broken, Reached, Noted, Placed
<1> QED BY <1>6, <1>7, <1>8, <1>9, <1>10, <1>11

\* Of finitely many candidates with a score one is first: none has a better score, and
\* none before it has the same.
LEMMA FirstExists ==
  ASSUME NEW n \in Nat, NEW E \in SUBSET (1 .. n), E # {}, NEW S, \A i \in E : S[i] \in Int
  PROVE  \E i \in E : \A j \in E : S[i] > S[j] \/ (S[i] = S[j] /\ i <= j)
<1> DEFINE beats(i) == {j \in E : S[j] > S[i] \/ (S[j] = S[i] /\ j < i)}
           all == {beats(i) : i \in E}
<1>1. IsFiniteSet(1 .. n) BY FS_Interval
<1>2. \A i \in E : beats(i) \in SUBSET (1 .. n) /\ IsFiniteSet(beats(i))
  <2> TAKE i \in E
  <2>1. beats(i) \in SUBSET (1 .. n) OBVIOUS
  <2> QED BY <1>1, <2>1, FS_Subset
<1>3. all \subseteq FiniteSubsetsOf(1 .. n) BY <1>2 DEF FiniteSubsetsOf
<1>4. all # {} OBVIOUS
<1>5. IsWellFoundedOn(StrictSubsetOrdering(1 .. n), FiniteSubsetsOf(1 .. n)) BY FS_StrictSubsetOrderingWellFounded
<1>6. \E x \in all : \A y \in all : ~ (<<y, x>> \in StrictSubsetOrdering(1 .. n))
  <2> HIDE DEF all
  <2> QED BY <1>3, <1>4, <1>5, WFMin
<1>7. PICK i \in E : \A j \in E : ~ (<<beats(j), beats(i)>> \in StrictSubsetOrdering(1 .. n)) BY <1>6
<1>8. ASSUME NEW j \in beats(i) PROVE FALSE
  <2>1. j \in E /\ j \notin beats(j) BY <1>8
  <2>2. \A k \in beats(j) : k \in beats(i)
    <3> TAKE k \in beats(j)
    <3>1. k \in E /\ i \in Int /\ j \in Int /\ k \in Int /\ S[i] \in Int /\ S[j] \in Int /\ S[k] \in Int BY <2>1
    <3> QED BY <1>8, <3>1
  <2>3. beats(j) \subseteq beats(i) /\ beats(j) # beats(i) BY <1>8, <2>1, <2>2
  <2>4. beats(i) \in SUBSET (1 .. n) /\ beats(j) \in SUBSET (1 .. n) BY <1>2, <2>1
  <2>5. <<beats(j), beats(i)>> \in StrictSubsetOrdering(1 .. n)
    <3> HIDE DEF beats
    <3> QED BY <2>3, <2>4 DEF StrictSubsetOrdering
  <2> QED BY <1>7, <2>1, <2>5
<1>9. ASSUME NEW j \in E PROVE S[i] > S[j] \/ (S[i] = S[j] /\ i <= j)
  <2>1. j \notin beats(i) BY <1>8
  <2>2. i \in Int /\ j \in Int /\ S[i] \in Int /\ S[j] \in Int OBVIOUS
  <2> QED BY <2>1, <2>2
<1> QED BY <1>9

\* The candidate that is chosen for the test is one of the fold's, complete, and unbeaten.
LEMMA WinnerIsUnbeaten ==
  ASSUME NEW v \in Validations, Here(v) \in 1 .. Folds[v], ViewIsRight(v), Eligible(v, view[v].complete) # {}
  PROVE  LET i == Winner(v, view[v].complete)
         IN  i \in DOMAIN Training[v][Here(v)] /\ Unbeaten(v, Here(v), i)
<1> DEFINE s == Training[v][Here(v)]
           E == Eligible(v, view[v].complete)
           S == [i \in DOMAIN s |-> Score[s[i]]]
           First1(i) == \A j \in E : Score[s[i]] > Score[s[j]] \/ (Score[s[i]] = Score[s[j]] /\ i <= j)
           w == Winner(v, view[v].complete)
<1>1. s \in Seq(Runs)
  <2>1. s \in Seq(RequestRuns[Submission[v]]) BY FoldsHaveRuns
  <2>2. RequestRuns[Submission[v]] \subseteq Runs BY RunsOf
  <2> QED BY <2>1, <2>2
<1>2. DOMAIN s = 1 .. Len(s) /\ Len(s) \in Nat /\ \A i \in DOMAIN s : s[i] \in Runs /\ Score[s[i]] \in Int /\ Trades[s[i]] \in Int
  BY <1>1, ResultsAreNumbers
<1>3. E \in SUBSET (1 .. Len(s)) /\ \A i \in E : S[i] \in Int BY <1>2 DEF Eligible
<1>4. \E i \in E : First1(i)
  <2>1. \E i \in E : \A j \in E : S[i] > S[j] \/ (S[i] = S[j] /\ i <= j)
    <3> HIDE DEF E, S, s
    <3> QED BY <1>2, <1>3, FirstExists DEF E
  <2> QED BY <1>2, <1>3, <2>1
<1>5. w = CHOOSE i \in E : First1(i) BY DEF Winner
<1>6. w \in E /\ First1(w) BY <1>4, <1>5
<1>7. w \in DOMAIN s /\ s[w] \in view[v].complete /\ Trades[s[w]] >= MinTrades BY <1>6 DEF Eligible
<1>8. s[w] \in Range(s) BY <1>7 DEF Range
<1>9. s[w] \notin revised => status[s[w]] = "COMPLETE" BY <1>7, <1>8 DEF ViewIsRight, Here
<1>10. ASSUME NEW r \in Range(s) \ revised, status[r] = "COMPLETE", Trades[r] >= MinTrades PROVE Score[r] <= Score[s[w]]
  <2>1. PICK j \in DOMAIN s : s[j] = r BY DEF Range
  <2>2. r \in view[v].complete BY <1>10 DEF ViewIsRight, Here
  <2>3. j \in E BY <1>10, <2>1, <2>2 DEF Eligible
  <2>4. Score[s[w]] > Score[s[j]] \/ Score[s[w]] = Score[s[j]] BY <1>6, <2>3
  <2>5. Score[s[w]] \in Int /\ Score[s[j]] \in Int BY <1>2, <1>7
  <2> HIDE DEF s, w
  <2> QED BY <2>1, <2>4, <2>5
<1> QED BY <1>7, <1>9, <1>10 DEF Unbeaten

\* Unbeaten after the step.
UnbeatenNext(v, f, i) ==
    LET s == Training[v][f]
        w == s[i]
    IN  /\ Trades[w] >= MinTrades /\ (w \notin revised' => status'[w] = "COMPLETE")
        /\ \A r \in Range(s) \ revised' : (status'[r] = "COMPLETE" /\ Trades[r] >= MinTrades) => Score[r] <= Score[w]

\* Rows of other runs that stay, and whose flag stays, keep what is known of the candidates of any fold.
LEMMA CandidatesKept ==
  ASSUME NEW v \in Validations, RowsGoOn
  PROVE  \A f \in 1 .. Folds[v] :
           /\ Reached(v, f) => Reached(v, f)'
           /\ TrainingEnded(v, f) => TrainingEnded(v, f)'
           /\ TrainingEnded(v, f) => \A r \in Range(Training[v][f]) \ revised' : status'[r] = status[r] /\ r \notin revised
           /\ Noted(v, f, seen[v][f].live) /\ seen'[v] = seen[v] => Noted(v, f, seen[v][f].live)'
           /\ \A i \in DOMAIN Training[v][f] : TrainingEnded(v, f) /\ Unbeaten(v, f, i) => UnbeatenNext(v, f, i)
<1> TAKE f \in 1 .. Folds[v]
<1>1. Range(Training[v][f]) \subseteq Runs BY RunsOf
<1>2. /\ TrainingEnded(v, f) => TrainingEnded(v, f)'
      /\ TrainingEnded(v, f) => \A r \in Range(Training[v][f]) \ revised' : status'[r] = status[r] /\ r \notin revised
  BY <1>1 DEF TrainingEnded, RowsGoOn, Kept
<1>3. ASSUME NEW i \in DOMAIN Training[v][f], TrainingEnded(v, f), Unbeaten(v, f, i) PROVE UnbeatenNext(v, f, i)
  <2>1. Training[v][f][i] \in Range(Training[v][f]) BY DEF Range
  <2> QED BY <1>2, <1>3, <2>1 DEF Unbeaten, UnbeatenNext
<1>4. Reached(v, f) => Reached(v, f)' BY <1>1 DEF Reached, RowsGoOn
<1>5. Noted(v, f, seen[v][f].live) /\ seen'[v] = seen[v] => Noted(v, f, seen[v][f].live)' BY <1>1 DEF Noted, RowsGoOn
<1> QED BY <1>2, <1>3, <1>4, <1>5

\* The best candidate's test run is inserted, and the fold linked to it.
LEMMA CreateTestRunStep ==
  ASSUME WfInv, NEW v \in Validations, CreateTestRun(v)
  PROVE  /\ LifeGoesOn /\ \A w \in Validations : w # v => TestsRest(w) /\ RequestGoesOn(w)
         /\ ValidationInv(v)'
<1> DEFINE p == position[v]
           t == Test[v][p]
           best == Winner(v, view[v].complete)
<1>0. /\ LifeInv /\ Shapes /\ ValidationInv(v) BY DEF WfInv
<1>1. LifeGoesOn /\ OtherTestsRest(v) /\ UNCHANGED <<cancel, job, request>>
  BY <1>0, TestRowWritten DEF ValidationInv
<1>2. /\ UNCHANGED <<vCancel, aggregate, position, view, seen, canceller, left, revised>> /\ coord[v] = "test" /\ coord'[v] = "submit"
      /\ tested'[v] = tested[v] \cup {p} /\ status'[t] = "QUEUED"
      /\ \A f \in 1 .. Folds[v] : selected'[v][f] = IF f = p THEN best ELSE selected[v][f]
      /\ \A f \in 1 .. Folds[v] : fold'[v][f] = IF f = p THEN "TESTING" ELSE fold[v][f]
  <2>0. coord[v] = "test" BY DEF CreateTestRun, Goto
  <2>1. t \in Runs /\ p \in 1 .. Folds[v] BY <1>0, <2>0, TestRunIsOwn DEF ValidationInv
  <2>2. \A f \in 1 .. Folds[v] : fold'[v][f] = IF f = p THEN "TESTING" ELSE fold[v][f]
    BY <1>0, FoldWritten DEF CreateTestRun, Here
  <2>3. status \in [Runs -> Life!Statuses] BY <1>0 DEF LifeInv, RowTypes
  <2>4. status'[t] = "QUEUED" BY <2>1, <2>3 DEF CreateTestRun, Here
  <2>5. \A f \in 1 .. Folds[v] : selected'[v][f] = IF f = p THEN best ELSE selected[v][f]
    BY <1>0, <2>1 DEF CreateTestRun, Here, Shapes
  <2>6. tested'[v] = tested[v] \cup {p} /\ coord'[v] = "submit" BY <1>0 DEF CreateTestRun, Here, Goto, Shapes
  <2> QED BY <2>0, <2>2, <2>4, <2>5, <2>6 DEF CreateTestRun, quiet
<1>3. /\ p \in 1 .. Folds[v] /\ Folds[v] \in Nat /\ p \notin tested[v] /\ 1 \in 1 .. Folds[v]
      /\ TrainingEnded(v, p) /\ ViewIsRight(v) /\ Eligible(v, view[v].complete) # {}
  BY <1>0, <1>2, RunsOf DEF ValidationInv, Placed, AtFold, BeforeTest, Trained
<1>4. best \in DOMAIN Training[v][p] /\ Unbeaten(v, p, best) BY <1>3, WinnerIsUnbeaten DEF Here
<1>5. RowsGoOn BY <1>0, <1>1, RowsOfLife DEF LifeGoesOn
<1>c. \A f \in 1 .. Folds[v] :
        /\ Reached(v, f) => Reached(v, f)'
        /\ TrainingEnded(v, f) => TrainingEnded(v, f)'
        /\ Noted(v, f, seen[v][f].live) => Noted(v, f, seen[v][f].live)'
        /\ \A i \in DOMAIN Training[v][f] : TrainingEnded(v, f) /\ Unbeaten(v, f, i) => UnbeatenNext(v, f, i)
  BY <1>2, <1>5, CandidatesKept
<1>d. \A f \in 1 .. Folds[v] : f # p => status'[Test[v][f]] = status[Test[v][f]]
  BY <1>1 DEF OtherTestsRest
<1>e. \A w \in Validations : w # v => TestsRest(w) /\ RequestGoesOn(w)
  BY <1>1 DEF OtherTestsRest, TestsRest, RequestGoesOn
<1>f. job'[t] = "none" BY <1>0, <1>1, <1>3 DEF ValidationInv, TestKnown
<1> HIDE DEF p, t, best
<1> USE DEF ValidationInv
<1>6. Submitted(v)' BY <1>0, <1>1, <1>2, <1>3, <1>5, RunsOf DEF Submitted, RowsGoOn
<1>7. Placed(v)' BY <1>0, <1>2, <1>3 DEF Placed, BeforeTest, WithTest, AtFold, p
<1>8. TestKnown(v)' BY <1>0, <1>1, <1>2, <1>3, <1>d, <1>f DEF TestKnown, Waiting, Placed, p, t
<1>9. Trained(v)'
  <2>1. ASSUME NEW f \in tested'[v]
        PROVE  TrainingEnded(v, f)' /\ selected'[v][f] \in DOMAIN Training[v][f] /\ UnbeatenNext(v, f, selected'[v][f])
    <3>1. CASE f = p
      <4>1. TrainingEnded(v, f)' /\ UnbeatenNext(v, f, best) BY <1>3, <1>4, <1>c, <3>1
      <4>2. selected'[v][f] = best BY <1>2, <1>3, <3>1
      <4> QED BY <1>2, <1>3, <1>4, <3>1, <4>1, <4>2
    <3>2. CASE f # p
      <4>1. f \in tested[v] /\ f \in 1 .. Folds[v] BY <1>0, <1>2, <3>2 DEF Placed
      <4>2. selected'[v][f] = selected[v][f] BY <1>2, <3>2, <4>1
      <4>3. TrainingEnded(v, f)' /\ UnbeatenNext(v, f, selected[v][f]) /\ selected[v][f] \in DOMAIN Training[v][f]
        BY <1>0, <1>c, <4>1 DEF Trained
      <4> QED BY <4>2, <4>3
    <3> QED BY <3>1, <3>2
  <2> QED BY <1>2, <2>1 DEF Trained, Unbeaten, UnbeatenNext
<1>10. Folded(v)' BY <1>0, <1>2, <1>3, <1>d DEF Folded, TestCompleted, Ended, p, Placed
<1>11. Stopped(v)'
  BY <1>0, <1>2, <1>3, <1>c, <1>d DEF Stopped, Broken, Reached, Noted, Ended, p
<1> QED BY <1>1, <1>6, <1>7, <1>8, <1>9, <1>10, <1>11, <1>e

\* What a step that neither ends nor reads a fold keeps of the candidates, told apart by its parts.
LEMMA FoldsStay ==
  ASSUME NEW v \in Validations, ValidationInv(v), RowsGoOn,
         UNCHANGED <<vCancel[v], fold[v], tested[v], selected[v], aggregate[v], position[v], canceller[v], seen[v], left[v]>>,
         coord'[v] \in {"submit", "withdraw", "await", "settle"}, coord[v] \in {"submit", "withdraw", "await"}
  PROVE  Trained(v)' /\ Folded(v)' /\ Stopped(v)'
<1>1. \A f \in 1 .. Folds[v] :
        /\ Reached(v, f) => Reached(v, f)'
        /\ TrainingEnded(v, f) => TrainingEnded(v, f)'
        /\ Noted(v, f, seen[v][f].live) => Noted(v, f, seen[v][f].live)'
        /\ \A i \in DOMAIN Training[v][f] : TrainingEnded(v, f) /\ Unbeaten(v, f, i) => UnbeatenNext(v, f, i)
  BY CandidatesKept
<1> USE DEF ValidationInv
<1>2. Trained(v)'
  <2>1. \A f \in tested[v] : f \in 1 .. Folds[v] BY DEF Placed
  <2>2. ASSUME NEW f \in tested[v]
        PROVE  TrainingEnded(v, f)' /\ selected[v][f] \in DOMAIN Training[v][f] /\ UnbeatenNext(v, f, selected[v][f])
    BY <1>1, <2>1 DEF Trained
  <2> QED BY <2>2 DEF Trained, Unbeaten, UnbeatenNext
<1>a. \A f \in 1 .. Folds[v] : TestCompleted(v, f) => TestCompleted(v, f)'
  BY RunsOf DEF TestCompleted, RowsGoOn, Kept, Terminal
<1>3. Folded(v)' BY <1>a DEF Folded
<1>4. Stopped(v)'
  <2>1. \A f \in 1 .. Folds[v] : status[Test[v][f]] \in Terminal => status'[Test[v][f]] \in Terminal
    BY RunsOf DEF RowsGoOn
  <2> QED BY <1>1, <2>1 DEF Stopped, Broken, Reached, Noted
<1> QED BY <1>2, <1>3, <1>4

\* The test run waits for a free slot, or is withdrawn by a cancel.
LEMMA SubmitTestRunStep ==
  ASSUME WfInv, NEW v \in Validations, SubmitTestRun(v)
  PROVE  /\ LifeGoesOn /\ \A w \in Validations : w # v => TestsRest(w) /\ RequestGoesOn(w)
         /\ ValidationInv(v)'
<1> DEFINE p == position[v]
           t == Test[v][p]
<1>0. LifeInv /\ Shapes /\ ValidationInv(v) BY DEF WfInv
<1>1. LifeGoesOn /\ OtherTestsRest(v) /\ UNCHANGED <<status, request>>
  BY <1>0, TestRunSubmitted DEF ValidationInv
<1>2. /\ UNCHANGED <<vCancel, fold, tested, selected, aggregate, position, view, seen, canceller, left, revised>>
      /\ coord[v] = "submit"
      /\ \/ coord'[v] = "await"
         \/ coord'[v] = "withdraw" /\ job' = job /\ cancel' = [cancel EXCEPT ![t] = @ \/ status[t] \in Active]
  BY <1>0 DEF SubmitTestRun, Goto, Here, quiet, memory, Shapes
<1>3. p \in 1 .. Folds[v] /\ Folds[v] \in Nat /\ p \in tested[v] /\ t \in Runs
  BY <1>0, <1>2, RunsOf DEF ValidationInv, Placed, AtFold, WithTest
<1>4. RowsGoOn BY <1>0, <1>1, RowsOfLife DEF LifeGoesOn
<1>5. \A w \in Validations : w # v => TestsRest(w) /\ RequestGoesOn(w)
  BY <1>1 DEF OtherTestsRest, TestsRest, RequestGoesOn
<1>6. coord'[v] = "withdraw" => (status[t] = "QUEUED" => cancel'[t])
  <2>2. cancel \in [Runs -> BOOLEAN] BY <1>0 DEF LifeInv, RowTypes
  <2> HIDE DEF t
  <2> QED BY <1>2, <1>3, <2>2 DEF Active
<1>7. \A f \in 1 .. Folds[v] : f # p /\ job[Test[v][f]] = "none" => job'[Test[v][f]] = "none"
  BY <1>1 DEF OtherTestsRest
<1> HIDE DEF p, t
<1> USE DEF ValidationInv
<1>8. Submitted(v)' BY <1>0, <1>1, <1>2 DEF Submitted
<1>9. Placed(v)' BY <1>0, <1>2, <1>3 DEF Placed, BeforeTest, WithTest, AtFold, p
<1>10. TestKnown(v)' BY <1>0, <1>1, <1>2, <1>3, <1>6, <1>7 DEF TestKnown, p, t
<1>11. Trained(v)' /\ Folded(v)' /\ Stopped(v)' BY <1>0, <1>2, <1>4, FoldsStay
<1> QED BY <1>1, <1>5, <1>8, <1>9, <1>10, <1>11

\* A withdrawn test run ends where it was.
LEMMA WithdrawTestRunStep ==
  ASSUME WfInv, NEW v \in Validations, WithdrawTestRun(v)
  PROVE  /\ LifeGoesOn /\ \A w \in Validations : w # v => TestsRest(w) /\ RequestGoesOn(w)
         /\ ValidationInv(v)'
<1> DEFINE p == position[v]
           t == Test[v][p]
<1>0. LifeInv /\ Shapes /\ ValidationInv(v) BY DEF WfInv
<1>1. LifeGoesOn /\ OtherTestsRest(v) /\ UNCHANGED <<cancel, job, request>>
  BY <1>0, TestRowWritten DEF ValidationInv
<1>2. /\ UNCHANGED <<vCancel, fold, tested, selected, aggregate, position, view, seen, canceller, left>>
      /\ coord[v] = "withdraw" /\ coord'[v] = "await"
  BY <1>0 DEF WithdrawTestRun, Goto, quiet, Shapes
<1>3. p \in 1 .. Folds[v] /\ Folds[v] \in Nat /\ p \in tested[v]
  BY <1>0, <1>2, RunsOf DEF ValidationInv, Placed, AtFold, WithTest
<1>4. RowsGoOn BY <1>0, <1>1, RowsOfLife DEF LifeGoesOn
<1>5. \A w \in Validations : w # v => TestsRest(w) /\ RequestGoesOn(w)
  BY <1>1 DEF OtherTestsRest, TestsRest, RequestGoesOn
<1>7. \A f \in 1 .. Folds[v] : f # p => status'[Test[v][f]] = status[Test[v][f]]
  BY <1>1 DEF OtherTestsRest
<1>8. \A f \in 1 .. Folds[v] : status[Test[v][f]] # "absent" => status'[Test[v][f]] # "absent"
  BY <1>4, RunsOf DEF RowsGoOn
<1> HIDE DEF p
<1> USE DEF ValidationInv
<1>9. Submitted(v)' BY <1>0, <1>1, <1>2, <1>4, RunsOf DEF Submitted, RowsGoOn
<1>10. Placed(v)' BY <1>0, <1>2, <1>3 DEF Placed, BeforeTest, WithTest, AtFold, p
<1>11. TestKnown(v)' BY <1>0, <1>1, <1>2, <1>3, <1>7, <1>8 DEF TestKnown, Placed
<1>12. Trained(v)' /\ Folded(v)' /\ Stopped(v)' BY <1>0, <1>2, <1>4, FoldsStay
<1> QED BY <1>1, <1>5, <1>9, <1>10, <1>11, <1>12

\* The poll for the test run: its end is read, or a cancel passed on.
LEMMA WaitForRunStep ==
  ASSUME WfInv, NEW v \in Validations, WaitForRun(v)
  PROVE  LifeGoesOn /\ OthersRest /\ ValidationInv(v)'
<1> DEFINE p == position[v]
           t == Test[v][p]
<1>0. LifeInv /\ Shapes /\ ValidationInv(v) BY DEF WfInv
<1>2. /\ UNCHANGED <<vCancel, fold, tested, selected, aggregate, position, seen, canceller, left, revised>>
      /\ UNCHANGED <<status, job, home, futures, queue, request, server>>
      /\ coord[v] = "await"
      /\ \/ coord'[v] = "settle" /\ status[t] \in Terminal /\ view'[v] = Read(v, p) /\ cancel' = cancel
         \/ /\ coord' = coord /\ view' = view /\ status[t] \notin Terminal /\ cancel' = [cancel EXCEPT ![t] = TRUE]
  BY <1>0 DEF WaitForRun, Goto, Here, quiet, requests, Shapes
<1>3. p \in 1 .. Folds[v] /\ Folds[v] \in Nat /\ p \in tested[v] /\ t \in Runs
  BY <1>0, <1>2, RunsOf DEF ValidationInv, Placed, AtFold, WithTest
<1>1. LifeGoesOn /\ OthersRest
  <2>1. cancel \in [Runs -> BOOLEAN] /\ status \in [Runs -> Life!Statuses] BY <1>0 DEF LifeInv, RowTypes
  <2>2. status[t] \notin Terminal => status[t] \in Active
    <3>1. status[t] # "absent" BY <1>0, <1>3 DEF ValidationInv, TestKnown
    <3>2. status[t] \in Life!Statuses BY <1>3, <2>1
    <3> QED BY <3>1, <3>2 DEF Life!Statuses, Life!Active, Life!Terminal, Active, Terminal
  <2>3. /\ cancel' \in [Runs -> BOOLEAN]
        /\ \A r \in Runs : cancel'[r] = cancel[r] \/ (cancel'[r] /\ status[r] \in Active)
    <3> HIDE DEF t
    <3>1. CASE cancel' = cancel BY <2>1, <3>1
    <3>2. CASE cancel' = [cancel EXCEPT ![t] = TRUE] /\ status[t] \in Active BY <1>3, <2>1, <3>2
    <3> QED BY <1>2, <2>2, <3>1, <3>2
  <2> QED BY <1>0, <1>2, <2>3, QuietRows
<1>4. RowsGoOn BY <1>0, <1>1, RowsOfLife DEF LifeGoesOn
<1>5. Read(v, p).result = status[t] BY <1>3, ReadIsRight
<1> HIDE DEF p, t
<1> USE DEF ValidationInv
<1>9. Submitted(v)' BY <1>0, <1>2 DEF Submitted
<1>10. Placed(v)' BY <1>0, <1>2, <1>3 DEF Placed, BeforeTest, WithTest, AtFold, p
<1>11. TestKnown(v)' BY <1>0, <1>2, <1>3, <1>5 DEF TestKnown, p, t
<1>12. Trained(v)' /\ Folded(v)' /\ Stopped(v)' BY <1>0, <1>2, <1>4, FoldsStay
<1> QED BY <1>1, <1>9, <1>10, <1>11, <1>12

\* A cancel reaches the runs that were noted: those that have not ended by now are flagged.
LEMMA LiveCancelled ==
  ASSUME LifeInv, NEW v \in Validations, Submitted(v), fold[v][1] # "absent", NEW live, CancelLive(v, live),
         UNCHANGED <<status, job, home, futures, queue, request, server, revised>>
  PROVE  /\ LifeGoesOn /\ OthersRest
         /\ \A f \in 1 .. Folds[v] : Noted(v, f, live) => Reached(v, f)'
<1>1. status \in [Runs -> Life!Statuses] /\ cancel \in [Runs -> BOOLEAN] BY DEF LifeInv, RowTypes
<1>2. cancel' = [r \in Runs |-> cancel[r] \/ (r \in live /\ status[r] \in Active)] BY DEF CancelLive
<1>3. /\ cancel' \in [Runs -> BOOLEAN]
      /\ \A r \in Runs : cancel'[r] = cancel[r] \/ (cancel'[r] /\ status[r] \in Active)
  BY <1>1, <1>2, Zenon
<1>4. LifeGoesOn /\ OthersRest BY <1>3, QuietRows
<1>5. ASSUME NEW f \in 1 .. Folds[v], Noted(v, f, live) PROVE Reached(v, f)'
  <2> SUFFICES ASSUME NEW r \in Range(Training[v][f]), status[r] \notin Terminal PROVE cancel'[r]
    BY DEF Reached
  <2>1. r \in Runs /\ r \in live /\ status[r] # "absent" BY <1>5, RunsOf DEF Noted, Submitted
  <2>2. status[r] \in Life!Statuses BY <1>1, <2>1
  <2>3. status[r] \in Active BY <2>1, <2>2 DEF Life!Statuses, Life!Active, Life!Terminal, Active, Terminal
  <2> QED BY <1>2, <2>1, <2>3
<1> QED BY <1>4, <1>5

\* The coordinator cancels the runs of the fold it is at, unless it read the fold as ended.
LEMMA CancelFoldRunsStep ==
  ASSUME WfInv, NEW v \in Validations, CancelFoldRuns(v)
  PROVE  LifeGoesOn /\ OthersRest /\ ValidationInv(v)'
<1> DEFINE p == position[v]
<1>0. LifeInv /\ Shapes /\ ValidationInv(v) BY DEF WfInv
<1>2. /\ UNCHANGED <<vCancel, fold, tested, selected, aggregate, view, seen, canceller, left>>
      /\ UNCHANGED <<status, job, home, futures, queue, request, server, revised>>
      /\ coord[v] = "cancelRuns"
      /\ \/ view[v].status \in Ended /\ coord'[v] = "loop" /\ position'[v] = p + 1 /\ UNCHANGED cancel
         \/ coord'[v] = "cancelFold" /\ position'[v] = p /\ CancelLive(v, view[v].live)
  BY <1>0 DEF CancelFoldRuns, Goto, NextFold, Here, quiet, requests, Shapes
<1>3. p \in 1 .. Folds[v] /\ Folds[v] \in Nat /\ p \notin tested[v] /\ fold[v][1] # "absent"
  BY <1>0, <1>2, RunsOf DEF ValidationInv, Placed, Submitted, AtFold, BeforeTest
<1>4. /\ LifeGoesOn /\ OthersRest
      /\ coord'[v] = "cancelFold" => \A r \in Range(Training[v][p]) : status'[r] \in Terminal \/ cancel'[r]
  <2>1. CASE UNCHANGED cancel /\ coord'[v] = "loop" BY <1>0, <1>2, <2>1, StillRows DEF rows
  <2>2. CASE CancelLive(v, view[v].live)
    <3>1. /\ LifeGoesOn /\ OthersRest
          /\ \A f \in 1 .. Folds[v] : Noted(v, f, view[v].live) => Reached(v, f)'
      BY <1>0, <1>2, <1>3, <2>2, LiveCancelled DEF ValidationInv
    <3>2. Noted(v, p, view[v].live) BY <1>0, <1>2 DEF ValidationInv, Stopped
    <3>3. \A r \in Range(Training[v][p]) : status'[r] \in Terminal \/ cancel'[r] BY <1>3, <3>1, <3>2 DEF Reached
    <3> QED BY <3>1, <3>3
  <2> QED BY <1>2, <2>1, <2>2
<1>5. RowsGoOn BY <1>0, <1>4, RowsOfLife DEF LifeGoesOn
<1>6. \A f \in 1 .. Folds[v] :
        /\ Reached(v, f) => Reached(v, f)'
        /\ Noted(v, f, seen[v][f].live) => Noted(v, f, seen[v][f].live)'
  BY <1>2, <1>5, CandidatesKept
<1>8. view[v].status \in Ended => fold[v][p] \in Ended /\ Reached(v, p)
  BY <1>0, <1>2 DEF ValidationInv, Stopped
<1> HIDE DEF p
<1> USE DEF ValidationInv
<1>9. Submitted(v)' BY <1>0, <1>2, <1>3 DEF Submitted
<1>10. Placed(v)' BY <1>0, <1>2, <1>3 DEF Placed, BeforeTest, WithTest, AtFold, p
<1>11. TestKnown(v)' BY <1>0, <1>2, <1>3 DEF TestKnown
<1>12. Trained(v)' BY <1>0, <1>2 DEF Trained, TrainingEnded, Unbeaten
<1>13. Folded(v)' BY <1>0, <1>2, <1>3, <1>8 DEF Folded, TestCompleted, p
<1>14. Stopped(v)'
  <2>1. \A f \in 1 .. Folds[v] : f < position'[v] =>
          Reached(v, f)' /\ (f \in tested[v] => status[Test[v][f]] \in Terminal)
    BY <1>0, <1>2, <1>3, <1>6, <1>8 DEF Stopped, p
  <2>2. \A f \in 1 .. Folds[v] : f >= position'[v] /\ fold[v][f] \in Ended => Reached(v, f)'
    BY <1>0, <1>2, <1>3, <1>6 DEF Stopped, Broken, p
  <2>3. \A f \in 1 .. Folds[v] :
          /\ <<f, "runs">> \in canceller[v] => Noted(v, f, seen[v][f].live)'
          /\ <<f, "fold">> \in canceller[v] /\ <<f, "runs">> \notin canceller[v] => Reached(v, f)'
    BY <1>0, <1>6 DEF Stopped
  <2> QED BY <1>2, <1>4, <2>1, <2>2, <2>3 DEF Stopped, Reached, Noted
<1> QED BY <1>4, <1>9, <1>10, <1>11, <1>12, <1>13, <1>14

\* The request sets the flag and notes which runs it finds alive.
LEMMA CancelValidationStep ==
  ASSUME WfInv, NEW v \in Validations, CancelValidation(v)
  PROVE  LifeGoesOn /\ OthersRest /\ ValidationInv(v)'
<1>0. LifeInv /\ Shapes /\ ValidationInv(v) BY DEF WfInv
<1>1. LifeGoesOn /\ OthersRest BY <1>0, StillRows DEF CancelValidation, memory, requests
<1>2. /\ UNCHANGED <<fold, tested, selected, aggregate, coord, position, view, left>>
      /\ UNCHANGED <<status, cancel, job, request, revised>> /\ fold[v][1] # "absent" /\ vCancel'[v] = TRUE
      /\ \A f \in 1 .. Folds[v] : seen'[v][f] = Read(v, f)
      /\ canceller'[v] = {f \in 1 .. Folds[v] : fold[v][f] \notin Ended} \X {"runs", "fold"}
  BY <1>0 DEF CancelValidation, rows, memory, requests, Shapes
<1>3. \A f \in 1 .. Folds[v] : Noted(v, f, Read(v, f).live) BY ReadIsRight
<1> USE DEF ValidationInv
<1>4. Submitted(v)' BY <1>0, <1>2 DEF Submitted
<1>5. Placed(v)' BY <1>0, <1>2 DEF Placed
<1>6. TestKnown(v)' BY <1>0, <1>2 DEF TestKnown
<1>7. Trained(v)'
  <2>1. Eligible(v, view[v].complete)' = Eligible(v, view[v].complete) BY <1>2 DEF Eligible, Here
  <2> QED BY <1>0, <1>2, <2>1 DEF Trained, TrainingEnded, Unbeaten, ViewIsRight
<1>8. Folded(v)' BY <1>0, <1>2 DEF Folded, TestCompleted
<1>9. Stopped(v)'
  <2>1. \A f \in 1 .. Folds[v] : /\ Noted(v, f, seen'[v][f].live)
                                 /\ <<f, "fold">> \in canceller'[v] => <<f, "runs">> \in canceller'[v]
    <3> TAKE f \in 1 .. Folds[v]
    <3>1. Noted(v, f, seen'[v][f].live) BY <1>2, <1>3
    <3> QED BY <1>2, <3>1
  <2> QED BY <1>0, <1>2, <2>1 DEF Stopped, Reached, Noted
<1> QED BY <1>1, <1>4, <1>5, <1>6, <1>7, <1>8, <1>9

\* The request cancels the runs of a fold, then the fold.
LEMMA CancelStepStep ==
  ASSUME WfInv, NEW v \in Validations, CancelStep(v)
  PROVE  LifeGoesOn /\ OthersRest /\ ValidationInv(v)'
<1>0. LifeInv /\ Shapes /\ ValidationInv(v) BY DEF WfInv
<1>1. /\ UNCHANGED <<vCancel, tested, selected, aggregate, coord, position, view, seen, left>>
      /\ UNCHANGED <<status, job, home, futures, queue, request, server, revised>>
  BY DEF CancelStep, requests
<1>2. PICK g \in 1 .. Folds[v] :
         \/ /\ <<g, "runs">> \in canceller[v] /\ canceller'[v] = canceller[v] \ {<<g, "runs">>}
            /\ CancelLive(v, seen[v][g].live) /\ UNCHANGED fold
         \/ /\ <<g, "runs">> \notin canceller[v] /\ <<g, "fold">> \in canceller[v]
            /\ canceller'[v] = canceller[v] \ {<<g, "fold">>}
            /\ UpdateFold(v, g, "CANCELLED") /\ UNCHANGED cancel
  BY <1>0 DEF CancelStep, Shapes
<1>3. fold[v][1] # "absent" BY <1>0, <1>2 DEF ValidationInv, Submitted
<1>4. /\ LifeGoesOn /\ OthersRest
      /\ <<g, "runs">> \in canceller[v] => Reached(v, g)'
  <2>1. CASE UNCHANGED cancel /\ <<g, "runs">> \notin canceller[v] BY <1>0, <1>1, <2>1, StillRows DEF rows
  <2>2. CASE <<g, "runs">> \in canceller[v] /\ CancelLive(v, seen[v][g].live)
    <3>1. /\ LifeGoesOn /\ OthersRest
          /\ \A f \in 1 .. Folds[v] : Noted(v, f, seen[v][g].live) => Reached(v, f)'
      BY <1>0, <1>1, <1>3, <2>2, LiveCancelled DEF ValidationInv
    <3>2. Noted(v, g, seen[v][g].live) BY <1>0, <2>2 DEF ValidationInv, Stopped
    <3> QED BY <3>1, <3>2
  <2> QED BY <1>2, <2>1, <2>2
<1>5. RowsGoOn BY <1>0, <1>4, RowsOfLife DEF LifeGoesOn
<1>6. \A f \in 1 .. Folds[v] :
        /\ Reached(v, f) => Reached(v, f)'
        /\ Noted(v, f, seen[v][f].live) => Noted(v, f, seen[v][f].live)'
  BY <1>1, <1>5, CandidatesKept
<1>7. \/ UNCHANGED fold /\ canceller'[v] = canceller[v] \ {<<g, "runs">>} /\ <<g, "runs">> \in canceller[v]
      \/ /\ \A f \in 1 .. Folds[v] : fold'[v][f] = IF f = g THEN "CANCELLED" ELSE fold[v][f]
         /\ canceller'[v] = canceller[v] \ {<<g, "fold">>} /\ Reached(v, g)
  BY <1>0, <1>2, FoldWritten DEF ValidationInv, Stopped
<1>8. \A f \in 1 .. Folds[v] : fold'[v][f] = fold[v][f] \/ (f = g /\ fold'[v][f] = "CANCELLED" /\ Reached(v, f)')
  BY <1>6, <1>7
<1>9. 1 \in 1 .. Folds[v] BY RunsOf
<1> USE DEF ValidationInv
<1>10. Submitted(v)'
  <2>1. \A f \in 1 .. Folds[v] : fold[v][f] # "absent" /\ fold'[v][f] # "absent"
    BY <1>0, <1>3, <1>8 DEF Submitted
  <2> QED BY <1>0, <1>1, <1>9, <2>1 DEF Submitted
<1>11. Placed(v)' BY <1>0, <1>1 DEF Placed
<1>12. TestKnown(v)' 
  <2>1. \A r \in Runs : cancel[r] => cancel'[r] BY <1>5 DEF RowsGoOn
  <2>2. coord[v] = "withdraw" => Test[v][position[v]] \in Runs BY <1>0, TestRunIsOwn
  <2> QED BY <1>0, <1>1, <2>1, <2>2 DEF TestKnown
<1>13. Trained(v)'
  <2>1. Eligible(v, view[v].complete)' = Eligible(v, view[v].complete) BY <1>1 DEF Eligible, Here
  <2> QED BY <1>0, <1>1, <2>1 DEF Trained, TrainingEnded, Unbeaten, ViewIsRight
<1>14. Folded(v)' BY <1>0, <1>1, <1>8 DEF Folded, TestCompleted, Ended
<1>15. Stopped(v)'
  <2>1. \A f \in 1 .. Folds[v] : f < position[v] =>
          Reached(v, f)' /\ (f \in tested[v] => status[Test[v][f]] \in Terminal)
    BY <1>0, <1>6 DEF Stopped
  <2>2. \A f \in 1 .. Folds[v] : coord[v] \notin Broken /\ f >= position[v] /\ fold'[v][f] \in Ended => Reached(v, f)'
    BY <1>0, <1>6, <1>8 DEF Stopped
  <2>3. \A f \in 1 .. Folds[v] :
          /\ <<f, "runs">> \in canceller'[v] => Noted(v, f, seen[v][f].live)'
          /\ <<f, "fold">> \in canceller'[v] /\ <<f, "runs">> \notin canceller'[v] => Reached(v, f)'
    <3> TAKE f \in 1 .. Folds[v]
    <3>1. CASE f = g BY <1>0, <1>2, <1>4, <1>6, <3>1 DEF Stopped
    <3>2. CASE f # g
      <4>1. /\ <<f, "runs">> # <<g, "runs">> /\ <<f, "runs">> # <<g, "fold">>
            /\ <<f, "fold">> # <<g, "runs">> /\ <<f, "fold">> # <<g, "fold">>
        BY <3>2
      <4>2. /\ <<f, "runs">> \in canceller'[v] <=> <<f, "runs">> \in canceller[v]
            /\ <<f, "fold">> \in canceller'[v] <=> <<f, "fold">> \in canceller[v]
        BY <1>7, <4>1
      <4> QED BY <1>0, <1>6, <4>2 DEF Stopped
    <3> QED BY <3>1, <3>2
  <2>4. coord[v] \in {"choose", "cancelRuns", "cancelFold"} => position[v] \in 1 .. Folds[v]
    BY <1>0, RunsOf DEF Placed, AtFold
  <2>5. coord[v] \in {"choose", "cancelRuns", "cancelFold"} =>
           /\ Reached(v, position[v]) => \A r \in Range(Training[v][position[v]]) : status'[r] \in Terminal \/ cancel'[r]
           /\ fold[v][position[v]] \in Ended => fold'[v][position[v]] \in Ended
    BY <1>6, <1>8, <2>4 DEF Reached, Ended
  <2> QED BY <1>0, <1>1, <2>1, <2>2, <2>3, <2>5 DEF Stopped, Reached, Noted
<1> QED BY <1>4, <1>10, <1>11, <1>12, <1>13, <1>14, <1>15

\* The rows of a validation are written: folds and training runs.
LEMMA CreateValidationStep ==
  ASSUME WfInv, NEW v \in Validations, CreateValidation(v)
  PROVE  ValidationInv(v)'
<1> DEFINE q == Submission[v]
<1>0. LifeInv /\ Shapes /\ ValidationInv(v) BY DEF WfInv
<1>1. LifeGoesOn /\ \A w \in Validations : TestsRest(w) BY <1>0, RequestRows
<1>2. RowsGoOn BY <1>0, <1>1, RowsOfLife DEF LifeGoesOn
<1>3. q \in Requests /\ Folds[v] \in Nat /\ 1 \in 1 .. Folds[v] BY RunsOf
<1>4. /\ UNCHANGED <<vCancel, tested, selected, aggregate, coord, position, view, canceller, seen, left, job, revised>>
      /\ request[q] = "reserved"
      /\ \/ /\ request'[q] = "created" /\ \A f \in 1 .. Folds[v] : fold'[v][f] = "QUEUED"
            /\ \A r \in RequestRuns[q] : status'[r] = "QUEUED"
         \/ request'[q] = "answered" /\ UNCHANGED fold
  <2>1. CreateRows(q) /\ request \in [Requests -> {"idle", "reserved", "created", "answered", "refused", "failed"}]
    BY <1>0 DEF CreateValidation, LifeInv, RowTypes
  <2>2. RequestRuns[q] \subseteq Runs BY RunsOf
  <2>3. /\ request[q] = "reserved" /\ job' = job
        /\ request'[q] \in {"created", "answered"}
        /\ request'[q] = "created" => \A r \in RequestRuns[q] : status'[r] = "QUEUED"
    BY <1>3, <2>1, <2>2 DEF CreateRows
  <2> HIDE DEF q
  <2>4. request'[q] = "created" => \A f \in 1 .. Folds[v] : fold'[v][f] = "QUEUED"
    BY <1>0 DEF CreateValidation, Shapes, q
  <2>5. request'[q] # "created" => UNCHANGED fold BY DEF CreateValidation, q
  <2> QED BY <2>3, <2>4, <2>5 DEF CreateValidation
<1>5. /\ coord[v] = "none" /\ fold[v][1] = "absent" /\ canceller[v] = {} /\ position[v] = 1 /\ tested[v] = {}
      /\ \A f \in 1 .. Folds[v] : fold[v][f] = "absent"
  BY <1>0, <1>3, <1>4 DEF ValidationInv, Submitted
<1>6. \A f \in 1 .. Folds[v] : status[Test[v][f]] = "absent" /\ job[Test[v][f]] = "none" /\ status'[Test[v][f]] = "absent"
  BY <1>0, <1>1, <1>5 DEF ValidationInv, TestKnown, TestsRest
<1> USE DEF ValidationInv
<1>7. Submitted(v)' BY <1>0, <1>3, <1>4, <1>5 DEF Submitted
<1>8. Placed(v)' BY <1>0, <1>4, <1>5 DEF Placed
<1>9. TestKnown(v)' BY <1>4, <1>5, <1>6 DEF TestKnown
<1>10. Trained(v)' BY <1>4, <1>5 DEF Trained
<1>11. Folded(v)' BY <1>0, <1>3, <1>4, <1>5 DEF Folded, TestCompleted
<1>12. Stopped(v)' BY <1>4, <1>5 DEF Stopped, Broken, Ended
<1> QED BY <1>7, <1>8, <1>9, <1>10, <1>11, <1>12

\* The runs enter the queue of the runner, the validation that of the coordinator.
LEMMA SubmitValidationStep ==
  ASSUME WfInv, NEW v \in Validations, SubmitValidation(v)
  PROVE  ValidationInv(v)' /\ coord[v] = "none"
<1> DEFINE q == Submission[v]
<1>0. LifeInv /\ Shapes /\ ValidationInv(v) BY DEF WfInv
<1>1. LifeGoesOn /\ \A w \in Validations : TestsRest(w) BY <1>0, RequestRows
<1>2. q \in Requests /\ Folds[v] \in Nat /\ 1 \in 1 .. Folds[v] BY RunsOf
<1>3. /\ UNCHANGED <<vCancel, fold, tested, selected, aggregate, position, view, canceller, seen, left, status, cancel, revised>>
      /\ request[q] = "created" /\ request'[q] = "answered" /\ coord'[v] = "queued"
  <2>1. SubmitRuns(q) /\ request \in [Requests -> {"idle", "reserved", "created", "answered", "refused", "failed"}]
    BY <1>0 DEF SubmitValidation, LifeInv, RowTypes
  <2>2. request[q] = "created" /\ request'[q] = "answered" /\ UNCHANGED <<status, cancel>> BY <1>2, <2>1 DEF SubmitRuns
  <2> QED BY <1>0, <2>2 DEF SubmitValidation, Shapes
<1>4. /\ coord[v] = "none" /\ position[v] = 1 /\ tested[v] = {} /\ fold[v][1] # "absent"
  BY <1>0, <1>3 DEF ValidationInv, Submitted
<1>5. \A f \in 1 .. Folds[v] : job'[Test[v][f]] = "none" /\ status[Test[v][f]] = "absent"
  BY <1>0, <1>1, <1>4 DEF ValidationInv, TestKnown, TestsRest
<1> USE DEF ValidationInv
<1>7. Submitted(v)' BY <1>0, <1>3, <1>4 DEF Submitted
<1>8. Placed(v)' BY <1>0, <1>3, <1>4 DEF Placed, BeforeTest, WithTest, AtFold
<1>9. TestKnown(v)' BY <1>3, <1>4, <1>5 DEF TestKnown
<1>10. Trained(v)' BY <1>3, <1>4 DEF Trained
<1>11. Folded(v)' BY <1>0, <1>3, <1>4 DEF Folded, TestCompleted
<1>12. Stopped(v)' BY <1>0, <1>3, <1>4 DEF Stopped, Broken, Reached, Noted
<1> QED BY <1>4, <1>7, <1>8, <1>9, <1>10, <1>11, <1>12

\* The end of the process drops what its coordinator counts, and the cancel requests with it.
LEMMA EndCoordinatorStep ==
  ASSUME WfInv, EndCoordinator
  PROVE  WfInv' /\ LifeGoesOn
<1>0. LifeInv /\ Shapes /\ Listed BY DEF WfInv
<1>1. LifeGoesOn /\ OthersRest BY <1>0, EndRows, FirstIsAContainer DEF EndCoordinator
<1>2. RowsGoOn BY <1>0, <1>1, RowsOfLife DEF LifeGoesOn
<1>3. /\ UNCHANGED <<vCancel, fold, tested, selected, aggregate, position, view, seen, status, cancel>>
      /\ coord' = [v \in Validations |-> IF v \in coordFutures THEN "dropped" ELSE coord[v]]
      /\ coordFutures' = {} /\ coordQueue' = <<>> /\ canceller' = [v \in Validations |-> {}]
      /\ left' = [v \in Validations |-> {}] /\ revised' = revised
  BY DEF EndCoordinator, EndProcess
<1>4. Shapes' BY <1>0, <1>3 DEF Shapes
<1>5. Listed' BY <1>0, <1>3 DEF Listed, AtFold
<1>6. ASSUME NEW v \in Validations PROVE ValidationInv(v)'
  <2>0. ValidationInv(v) /\ TestsRest(v) /\ RequestGoesOn(v) BY <1>1 DEF WfInv, OthersRest
  <2>1. CASE v \notin coordFutures
    <3>1. coord'[v] = coord[v] /\ coord[v] # "failing" BY <1>0, <1>3, <2>1 DEF Listed
    <3> USE DEF ValidationInv
    <3>2. Submitted(v)' BY <1>3, <2>0, <3>1 DEF Submitted, RequestGoesOn
    <3>3. Placed(v)' BY <1>3, <2>0, <3>1 DEF Placed
    <3>4. TestKnown(v)'
      BY <1>3, <2>0, <3>1, RunsOf DEF TestKnown, TestsRest, Placed, AtFold
    <3>5. Trained(v)'
      <4>1. Eligible(v, view[v].complete)' = Eligible(v, view[v].complete) BY <1>3 DEF Eligible, Here
      <4> QED BY <1>3, <2>0, <3>1, <4>1 DEF Trained, TrainingEnded, Unbeaten, ViewIsRight
    <3>6. Folded(v)' BY <1>3, <2>0, <3>1 DEF Folded, TestCompleted
    <3>7. Stopped(v)' BY <1>3, <2>0, <3>1 DEF Stopped, Broken, Reached, Noted
    <3> QED BY <3>2, <3>3, <3>4, <3>5, <3>6, <3>7
  <2>2. CASE v \in coordFutures
    <3>1. coord'[v] = "dropped" /\ coord[v] # "none" /\ coord[v] # "failed"
      BY <1>0, <1>3, <2>2 DEF Listed, AtFold
    <3> USE DEF ValidationInv
    <3>2. Submitted(v)' BY <1>3, <2>0, <3>1 DEF Submitted, RequestGoesOn
    <3>3. Placed(v)' BY <1>3, <2>0, <3>1 DEF Placed, BeforeTest, WithTest, AtFold
    <3>4. TestKnown(v)' BY <1>3, <2>0, <3>1 DEF TestKnown, TestsRest
    <3>5. Trained(v)' BY <1>3, <2>0, <3>1 DEF Trained, TrainingEnded, Unbeaten
    <3>6. Folded(v)' BY <1>3, <2>0, <3>1 DEF Folded, TestCompleted
    <3>7. Stopped(v)' BY <1>3, <2>0, <3>1 DEF Stopped, Broken, Reached
    <3> QED BY <3>2, <3>3, <3>4, <3>5, <3>6, <3>7
  <2> QED BY <2>1, <2>2
<1> QED BY <1>1, <1>4, <1>5, <1>6 DEF WfInv, LifeGoesOn

-----------------------------------------------------------------------------
(* All steps.                                                              *)

\* A validation that leaves the coordinator is not counted any more; the others keep their places.
LEMMA ListedStep ==
  ASSUME WfInv, NEW v \in Validations,
         \/ CoordinatorStep(v) \/ CoordinatorRefused(v) \/ CoordinatorFails(v) \/ FailingFails(v)
         \/ CreateValidation(v) \/ SubmitValidation(v) \/ CancelValidation(v) \/ CancelStep(v)
  PROVE  Listed'
<1>0. Shapes /\ Listed /\ coordQueue \in Seq(Validations) BY DEF WfInv, Listed
<1>1. \A w \in Validations : w # v => coord'[w] = coord[w] BY <1>0, OwnOnly DEF Own
<1>a. \A i \in 1 .. Len(coordQueue) : coordQueue[i] \in Validations BY <1>0
<1>2. CASE /\ UNCHANGED <<coordQueue, coordFutures>>
           /\ \/ coord[v] # "queued" /\ coord'[v] \in AtFold \cup {"finish", "failing"}
              \/ coord'[v] = coord[v]
           /\ coord[v] \in AtFold \cup {"finish", "failing"} \/ coord'[v] = coord[v]
  BY <1>0, <1>1, <1>2, <1>a DEF Listed
<1>3. CASE FinishValidation(v) \/ FoldsFailed(v) \/ FailingFails(v)
  <2>1. /\ UNCHANGED coordQueue /\ coordFutures' = coordFutures \ {v} /\ coord[v] # "queued"
        /\ coord'[v] \in {"done", "failed", "abandoned"}
    BY <1>0, <1>3 DEF FinishValidation, FoldsFailed, FailingFails, Goto, Shapes
  <2> QED BY <1>0, <1>1, <1>a, <2>1 DEF Listed, AtFold
<1>4. CASE BeginValidation(v) \/ CoordinatorRefused(v)
  <2>1. /\ coordQueue # <<>> /\ v = Head(coordQueue) /\ coordQueue' = Tail(coordQueue)
        /\ \/ coordFutures' = coordFutures /\ coord'[v] \in AtFold
           \/ coordFutures' = coordFutures \ {v} /\ coord'[v] = "dropped"
    BY <1>0, <1>4 DEF BeginValidation, CoordinatorRefused, Shapes, AtFold
  <2>2. /\ Len(coordQueue) \in Nat \ {0} /\ v = coordQueue[1] /\ Tail(coordQueue) \in Seq(Validations)
        /\ Len(Tail(coordQueue)) = Len(coordQueue) - 1
        /\ \A i \in 1 .. Len(Tail(coordQueue)) : Tail(coordQueue)[i] = coordQueue[i + 1]
    BY <1>0, <2>1
  <2>3. ASSUME NEW i \in 1 .. Len(coordQueue')
        PROVE  /\ coord'[coordQueue'[i]] = "queued"
               /\ \A j \in 1 .. Len(coordQueue') : coordQueue'[i] = coordQueue'[j] => i = j
    <3>1. i + 1 \in 1 .. Len(coordQueue) /\ coordQueue'[i] = coordQueue[i + 1] /\ i + 1 # 1 /\ 1 \in 1 .. Len(coordQueue)
      BY <2>1, <2>2
    <3>2. coordQueue[i + 1] # v /\ coordQueue[i + 1] \in Validations /\ coord[coordQueue[i + 1]] = "queued"
      BY <1>0, <1>a, <2>2, <3>1 DEF Listed
    <3>3. ASSUME NEW j \in 1 .. Len(coordQueue'), coordQueue'[i] = coordQueue'[j] PROVE i = j
      <4>1. j + 1 \in 1 .. Len(coordQueue) /\ coordQueue'[j] = coordQueue[j + 1] BY <2>1, <2>2
      <4>2. i + 1 = j + 1 BY <1>0, <3>1, <3>3, <4>1 DEF Listed
      <4> QED BY <4>2
    <3> QED BY <1>1, <3>1, <3>2, <3>3
  <2>4. coord[v] = "queued" BY <1>0, <2>2 DEF Listed
  <2> QED BY <1>0, <1>1, <2>1, <2>2, <2>3, <2>4 DEF Listed, AtFold
<1>5. CASE SubmitValidation(v)
  <2>1. coord[v] = "none" BY <1>5, SubmitValidationStep
  <2>2. coordFutures' = coordFutures \cup {v} /\ coordQueue' = Append(coordQueue, v) /\ coord'[v] = "queued"
    BY <1>0, <1>5 DEF SubmitValidation, Shapes
  <2>3. /\ coordQueue' \in Seq(Validations)
        /\ \A i \in 1 .. Len(coordQueue') : \/ i \in 1 .. Len(coordQueue) /\ coordQueue'[i] = coordQueue[i]
                                            \/ i = Len(coordQueue) + 1 /\ coordQueue'[i] = v
    BY <1>0, <2>2
  <2>4. \A i \in 1 .. Len(coordQueue) : coordQueue[i] # v BY <1>0, <2>1 DEF Listed
  <2> QED BY <1>0, <1>1, <1>a, <2>2, <2>3, <2>4 DEF Listed
<1>6. CASE CoordinatorFails(v) BY <1>0, <1>2, <1>6 DEF CoordinatorFails, Shapes, AtFold
<1>b. CASE FailFold(v) BY <1>2, <1>b DEF FailFold
<1>7. CASE CreateValidation(v) \/ CancelValidation(v) \/ CancelStep(v)
  BY <1>2, <1>7 DEF CreateValidation, CancelValidation, CancelStep
<1>8. CASE ReadFold(v) BY <1>0, <1>2, <1>8 DEF ReadFold, Goto, NextFold, quiet, Shapes, AtFold
<1>9. CASE MarkTraining(v) BY <1>0, <1>2, <1>9 DEF MarkTraining, Goto, quiet, Shapes, AtFold
<1>10. CASE WaitForTraining(v) BY <1>0, <1>2, <1>10 DEF WaitForTraining, Goto, quiet, Shapes, AtFold
<1>11. CASE ChooseCandidate(v) BY <1>0, <1>2, <1>11 DEF ChooseCandidate, Goto, NextFold, quiet, Shapes, AtFold
<1>12. CASE CreateTestRun(v) BY <1>0, <1>2, <1>12 DEF CreateTestRun, Goto, quiet, Shapes, AtFold
<1>13. CASE SubmitTestRun(v) BY <1>0, <1>2, <1>13 DEF SubmitTestRun, Goto, quiet, Shapes, AtFold
<1>14. CASE WithdrawTestRun(v) BY <1>0, <1>2, <1>14 DEF WithdrawTestRun, Goto, Shapes, AtFold
<1>15. CASE WaitForRun(v) BY <1>0, <1>2, <1>15 DEF WaitForRun, Goto, quiet, Shapes, AtFold
<1>16. CASE SettleFold(v) BY <1>0, <1>2, <1>16 DEF SettleFold, Goto, NextFold, quiet, Shapes, AtFold
<1>17. CASE CancelFoldRuns(v) BY <1>0, <1>2, <1>17 DEF CancelFoldRuns, Goto, NextFold, quiet, Shapes, AtFold
<1>18. CASE CancelFold(v) BY <1>0, <1>2, <1>18 DEF CancelFold, Goto, NextFold, quiet, Shapes, AtFold
<1> QED BY <1>3, <1>4, <1>5, <1>6, <1>7, <1>8, <1>9, <1>10, <1>11, <1>12, <1>13, <1>14, <1>15, <1>16, <1>17, <1>18, <1>b
        DEF CoordinatorStep


\* A step of one validation leaves the others as they were.
LEMMA OneValidation ==
  ASSUME WfInv, NEW v \in Validations, LifeGoesOn, Shapes', Listed', ValidationInv(v)',
         \A w \in Validations : w # v => UNCHANGED Own(w) /\ TestsRest(w) /\ RequestGoesOn(w)
  PROVE  WfInv' /\ [Life!Next]_(Life!lifeVars)
<1>1. RowsGoOn BY RowsOfLife DEF LifeGoesOn, WfInv
<1>2. ASSUME NEW w \in Validations PROVE ValidationInv(w)'
  <2>1. CASE w = v BY <2>1
  <2>2. CASE w # v
    <3>1. ValidationInv(w) BY DEF WfInv
    <3>2. UNCHANGED Own(w) /\ TestsRest(w) /\ RequestGoesOn(w) BY <2>2
    <3> QED BY <1>1, <3>1, <3>2, Elsewhere
  <2> QED BY <2>1, <2>2
<1> QED BY <1>2 DEF WfInv, LifeGoesOn

\* A step that leaves all that the coordinator and the cancel requests know.
LEMMA NoValidation ==
  ASSUME WfInv, LifeGoesOn, OthersRest,
         UNCHANGED <<vCancel, fold, tested, selected, aggregate, coord, position, view, coordFutures, coordQueue, canceller, seen, left>>
  PROVE  WfInv' /\ [Life!Next]_(Life!lifeVars)
<1>1. RowsGoOn BY RowsOfLife DEF LifeGoesOn, WfInv
<1>2. ASSUME NEW w \in Validations PROVE ValidationInv(w)'
  <2>1. ValidationInv(w) BY DEF WfInv
  <2>2. UNCHANGED Own(w) /\ TestsRest(w) /\ RequestGoesOn(w) BY DEF Own, OthersRest
  <2> QED BY <1>1, <2>1, <2>2, Elsewhere
<1>3. Shapes' /\ Listed' BY DEF WfInv, Shapes, Listed
<1> QED BY <1>2, <1>3 DEF WfInv, LifeGoesOn

LEMMA InitWf == WfInit => WfInv
<1> SUFFICES ASSUME WfInit PROVE WfInv OBVIOUS
<1>1. JobsInit BY DEF WfInit
<1>2. LifeInv BY <1>1, InitLife
<1>4. Shapes BY DEF WfInit, Shapes
<1>5. Listed BY DEF WfInit, Listed, AtFold
<1>6. ASSUME NEW v \in Validations PROVE ValidationInv(v)
  <2>1. /\ coord[v] = "none" /\ position[v] = 1 /\ tested[v] = {} /\ aggregate[v] = None /\ canceller[v] = {}
        /\ left[v] = {} /\ \A f \in 1 .. Folds[v] : fold[v][f] = "absent"
    BY <1>6 DEF WfInit
  <2>2. \A r \in Runs : status[r] = "absent" /\ job[r] = "none" BY <1>1 DEF JobsInit
  <2>3. \A q \in Requests : request[q] = "idle" BY <1>1 DEF JobsInit
  <2>4. Submitted(v) BY <1>6, <2>1, <2>3, RunsOf DEF Submitted
  <2>5. Placed(v) BY <2>1, RunsOf DEF Placed, BeforeTest, WithTest, AtFold
  <2>6. TestKnown(v) BY <2>1, <2>2, RunsOf DEF TestKnown
  <2>7. Trained(v) BY <2>1 DEF Trained
  <2>8. Folded(v) BY <2>1, RunsOf DEF Folded
  <2>9. Stopped(v) BY <2>1, RunsOf DEF Stopped, Ended
  <2> QED BY <2>4, <2>5, <2>6, <2>7, <2>8, <2>9 DEF ValidationInv
<1> QED BY <1>2, <1>4, <1>5, <1>6 DEF WfInv

\* A step of the coordinator, or of a request of validation v.
LEMMA ValidationStep ==
  ASSUME WfInv, NEW v \in Validations,
         \/ CoordinatorStep(v) \/ CoordinatorRefused(v) \/ CoordinatorFails(v) \/ FailingFails(v)
         \/ CreateValidation(v) \/ SubmitValidation(v) \/ CancelValidation(v) \/ CancelStep(v)
  PROVE  WfInv' /\ [Life!Next]_(Life!lifeVars)
<1>1. Shapes' /\ \A w \in Validations : w # v => UNCHANGED Own(w) BY OwnOnly DEF WfInv
<1>2. Listed' BY ListedStep
<1> SUFFICES /\ LifeGoesOn /\ ValidationInv(v)'
             /\ \A w \in Validations : w # v => TestsRest(w) /\ RequestGoesOn(w)
  BY <1>1, <1>2, OneValidation
<1>3. CASE BeginValidation(v) \/ CoordinatorRefused(v) \/ CoordinatorFails(v) BY <1>3, OutsideStep DEF OthersRest
<1>4. CASE ReadFold(v) BY <1>4, QuietCoordinator, ReadFoldStep DEF OthersRest
<1>5. CASE MarkTraining(v) BY <1>5, QuietCoordinator, MarkTrainingStep DEF OthersRest
<1>6. CASE WaitForTraining(v) BY <1>6, QuietCoordinator, WaitForTrainingStep DEF OthersRest
<1>7. CASE ChooseCandidate(v) BY <1>7, QuietCoordinator, ChooseCandidateStep DEF OthersRest
<1>8. CASE SettleFold(v) BY <1>8, QuietCoordinator, SettleFoldStep DEF OthersRest
<1>9. CASE CancelFold(v) BY <1>9, QuietCoordinator, CancelFoldStep DEF OthersRest
<1>10. CASE FinishValidation(v) \/ FailFold(v) \/ FoldsFailed(v) \/ FailingFails(v) BY <1>10, QuietCoordinator, EndStep DEF OthersRest
<1>11. CASE CreateTestRun(v) BY <1>11, CreateTestRunStep
<1>12. CASE SubmitTestRun(v) BY <1>12, SubmitTestRunStep
<1>13. CASE WithdrawTestRun(v) BY <1>13, WithdrawTestRunStep
<1>14. CASE WaitForRun(v) BY <1>14, WaitForRunStep DEF OthersRest
<1>15. CASE CancelFoldRuns(v) BY <1>15, CancelFoldRunsStep DEF OthersRest
<1>16. CASE CancelValidation(v) BY <1>16, CancelValidationStep DEF OthersRest
<1>17. CASE CancelStep(v) BY <1>17, CancelStepStep DEF OthersRest
<1>18. CASE CreateValidation(v) BY <1>18, CreateValidationStep, RequestRows DEF WfInv
<1>19. CASE SubmitValidation(v) BY <1>19, SubmitValidationStep, RequestRows DEF WfInv
<1> QED BY <1>3, <1>4, <1>5, <1>6, <1>7, <1>8, <1>9, <1>10, <1>11, <1>12, <1>13, <1>14, <1>15, <1>16, <1>17, <1>18, <1>19
        DEF CoordinatorStep

LEMMA NextWf == WfInv /\ [WfNext]_wfVars => WfInv' /\ [Life!Next]_(Life!lifeVars)
<1> SUFFICES ASSUME WfInv, [WfNext]_wfVars PROVE WfInv' /\ [Life!Next]_(Life!lifeVars) OBVIOUS
<1>0. LifeInv BY DEF WfInv
<1>1. CASE UNCHANGED wfVars
  <2>1. LifeGoesOn /\ OthersRest BY <1>0, <1>1, StillRows DEF wfVars, vars, memory, requests
  <2> QED BY <1>1, <2>1, NoValidation DEF wfVars, fwd
<1>2. CASE JobsStep
  <2>1. LifeGoesOn /\ OthersRest
    <3>0. Revise BY <1>2 DEF JobsStep
    <3>1. CASE \E c \in Containers : Take(c) BY <1>0, <3>0, <3>1, TakeRows
    <3>2. CASE \E r \in Runs : WorkerStep(r) \/ LeaseRefused(r) \/ EngineFails(r) BY <1>0, <3>0, <3>2, ThreadRows
    <3> QED BY <1>2, <3>1, <3>2 DEF JobsStep
  <2> QED BY <1>2, <2>1, NoValidation DEF JobsStep, fwd
<1>3. ASSUME NEW v \in Validations, BeginSubmission(v) \/ SubmissionFails(v)
      PROVE  WfInv' /\ [Life!Next]_(Life!lifeVars)
  <2>1. /\ UNCHANGED <<vCancel, fold, tested, selected, aggregate, coord, position, view, coordFutures, coordQueue, canceller, seen, left>>
        /\ LifeGoesOn /\ \A w \in Validations : TestsRest(w) /\ (w # v \/ ~ CreateValidation(v) => RequestGoesOn(w))
    BY <1>0, <1>3, RequestRows DEF BeginSubmission, SubmissionFails
  <2>2. \A w \in Validations : w # v => UNCHANGED Own(w) /\ TestsRest(w) /\ RequestGoesOn(w) BY <2>1 DEF Own
  <2>3. CASE CreateValidation(v) BY <2>3, ValidationStep
  <2>4. CASE ~ CreateValidation(v) BY <2>1, <2>4, NoValidation DEF OthersRest
  <2> QED BY <2>3, <2>4
<1>4. ASSUME NEW v \in Validations,
             \/ CoordinatorStep(v) \/ CoordinatorRefused(v) \/ CoordinatorFails(v) \/ FailingFails(v)
             \/ CreateValidation(v) \/ SubmitValidation(v) \/ CancelValidation(v) \/ CancelStep(v)
      PROVE  WfInv' /\ [Life!Next]_(Life!lifeVars)
  BY <1>4, ValidationStep
<1>5. CASE EndCoordinator BY <1>5, EndCoordinatorStep DEF LifeGoesOn
<1>6. ASSUME NEW c \in Containers, StartBeside(c) PROVE WfInv' /\ [Life!Next]_(Life!lifeVars)
  <2>1. LifeGoesOn /\ OthersRest BY <1>0, <1>6, StartRows
  <2> QED BY <1>6, <2>1, NoValidation DEF StartBeside, fwd
<1> QED BY <1>1, <1>2, <1>3, <1>4, <1>5, <1>6 DEF WfNext

\* The inductive invariant holds of every validation, fold and run.
LEMMA WfInvariant == WfSpec => []WfInv
  BY InitWf, NextWf, PTL DEF WfSpec

-----------------------------------------------------------------------------
(* The results.                                                            *)

\* The unseen data stay unseen, for any number of folds, candidates and containers that start
\* beside the coordinator's: a fold has a test run only when all its training runs read as ended,
\* and it tests the best of those that completed. A run whose final status is overwritten later
\* (taken for dead by a starting container, or failing when its completion is read back) counts
\* neither way: what it becomes was not known when the candidates were ranked.
THEOREM TestsFollowTraining == WfSpec => []TestFollowsTraining
<1>1. WfInv => TestFollowsTraining
  <2> SUFFICES ASSUME WfInv, NEW v \in Validations, NEW f \in tested[v]
               PROVE  /\ TrainingEnded(v, f) /\ Unbeaten(v, f, selected[v][f])
    BY DEF TestFollowsTraining, TrainingEnded, Unbeaten
  <2> QED BY DEF WfInv, ValidationInv, Trained
<1> QED BY <1>1, WfInvariant, PTL

\* The status that the folds of a validation add up to, when all of them have ended.
LEMMA EndedStatus ==
  ASSUME NEW v \in Validations, \A f \in 1 .. Folds[v] : fold[v][f] \in Ended
  PROVE  ValidationStatus(v) \notin {"QUEUED", "RUNNING"}
<1> DEFINE all(S) == \A f \in 1 .. Folds[v] : fold[v][f] \in S
           some(S) == \E f \in 1 .. Folds[v] : fold[v][f] \in S
<1>1. all(Ended) /\ ~ some({"TESTING", "TRAINING"}) BY DEF Ended
<1>2. ValidationStatus(v) =
        CASE all({"COMPLETE"}) -> "COMPLETE"
          [] all({"CANCELLED"}) -> "CANCELLED"
          [] some({"FAILED"}) /\ all({"FAILED", "CANCELLED"}) -> "FAILED"
          [] ~ all({"FAILED", "CANCELLED"}) /\ some({"TESTING", "TRAINING"}) -> "RUNNING"
          [] OTHER -> IF vCancel[v] THEN "CANCELLING" ELSE IF all(Ended) THEN "PARTIAL" ELSE "QUEUED"
  BY DEF ValidationStatus
<1> HIDE DEF all, some
<1> QED BY <1>1, <1>2

\* A validation that the coordinator is done with is settled, for any number of folds and
\* whatever cancels arrived meanwhile: it reads neither queued nor running (a failure that could
\* not be recorded apart), it aggregates folds whose unseen test completed, and no run of it is
\* left that was not told to stop.
THEOREM EndedValidationsAreSettled == WfSpec => []EndedValidationIsSettled
<1>1. WfInv => EndedValidationIsSettled
  <2> SUFFICES ASSUME WfInv PROVE EndedValidationIsSettled OBVIOUS
  <2>1. ASSUME NEW v \in Validations, coord[v] = "done", NEW f \in 1 .. Folds[v], NEW r \in Children(v, f),
               status[r] \in Active
        PROVE  cancel[r]
    <3>1. Placed(v) /\ Stopped(v) BY DEF WfInv, ValidationInv
    <3>2. f < position[v] BY <2>1, <3>1, RunsOf DEF Placed
    <3>3. Reached(v, f) /\ (f \in tested[v] => status[Test[v][f]] \in Terminal) BY <3>1, <3>2 DEF Stopped
    <3>4. \A s \in Active : s \notin Terminal BY DEF Active, Terminal
    <3> QED BY <2>1, <3>3, <3>4 DEF Children, Reached
  <2>2. CancelReachesRuns BY <2>1 DEF CancelReachesRuns
  <2>3. ASSUME NEW v \in Validations, coord[v] \in {"done", "failed"}
        PROVE  /\ ValidationStatus(v) \notin {"QUEUED", "RUNNING"}
               /\ aggregate[v] # None => \A f \in aggregate[v] : TestCompleted(v, f)
    <3>1. Placed(v) /\ Folded(v) BY DEF WfInv, ValidationInv
    <3>2. \A f \in 1 .. Folds[v] : f < position[v] \/ coord[v] = "failed"
      BY <2>3, <3>1, RunsOf DEF Placed
    <3>3. \A f \in 1 .. Folds[v] : fold[v][f] \in Ended BY <3>1, <3>2 DEF Folded
    <3> QED BY <3>1, <3>3, EndedStatus DEF Folded
  <2> QED BY <2>2, <2>3 DEF EndedValidationIsSettled, TestCompleted
<1> QED BY <1>1, WfInvariant, PTL

\* The queue still implements the life of a run when the coordinator adds its test runs to
\* it and withdraws them: the runs of a validation live like all others.
THEOREM WalkForwardImplementsLifecycle == WfSpec => ImplementsLifecycle
<1>1. WfInit => Life!Init BY DEF WfInit, JobsInit, Life!Init
<1> QED BY <1>1, InitWf, NextWf, PTL DEF WfSpec, ImplementsLifecycle, Life!Spec
=============================================================================
