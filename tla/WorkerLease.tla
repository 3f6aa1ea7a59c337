---------------------------- MODULE WorkerLease ----------------------------
(***************************************************************************)
(* Database leases (backend/monitoring/leases.py and the lease queries of  *)
(* backend/monitoring/repository.py) and the workers that hold them.       *)
(*                                                                         *)
(* Workers of overlapping processes compete for the same task.  A worker   *)
(* takes its leases one after the other, each through a guard of its own;  *)
(* a guard that got its lease has a thread that renews it.  A task runs    *)
(* while both sides of every call take their time: the moment a call       *)
(* carries is read from the clock before the call, the row is changed when *)
(* the statement runs, up to MaxDelay ticks later.                         *)
(*                                                                         *)
(* Time is relative: a row holds the ticks that are left to its expiry, a  *)
(* call its age, so that no clock grows.  Every guard makes its own owner  *)
(* token, so the disjunct of acquire_lease for a token that owns the row   *)
(* already never applies, and `owner' names the worker of the guard.  The  *)
(* heartbeat interval is left open: a renewal may come early, or too late. *)
(***************************************************************************)
EXTENDS Integers, Sequences

CONSTANTS
    Workers,        \* the workers that compete for one task
    Leases,         \* Leases[w]: the leases w takes, in order
    Keys,           \* all rows of worker_leases concerned
    TTL,            \* ticks a lease lives after its last heartbeat
    MaxDelay,       \* bound: ticks a statement may be under way
    MaxErrors,      \* bound: statements that fail
    NoOne           \* the owner of a row that was never inserted

ASSUME TTLIsPositive == TTL \in Nat \ {0}
ASSUME DelayIsNatural == MaxDelay \in Nat
ASSUME LeasesAreKeys == Leases \in [Workers -> Seq(Keys) \ {<<>>}]
ASSUME NoOneIsNoWorker == NoOne \notin Workers
\* A worker names its leases by different worker types.
ASSUME LeasesAreDistinct == \A w \in Workers : \A i, j \in 1..Len(Leases[w]) : Leases[w][i] = Leases[w][j] => i = j

VARIABLES
    lease,      \* the rows
    pc, pos,    \* where each worker is, and at which of its leases
    age,        \* of the call its main thread makes; 1 while it releases a lease
    held,       \* guard.acquired
    thread,     \* the guard's heartbeat thread
    since,      \* ticks since the moment of the guard's last renewal
    errors      \* counter for the bound

vars == <<lease, pc, pos, age, held, thread, since, errors>>
-----------------------------------------------------------------------------
Guards == {g \in Workers \X Keys : \E i \in 1..Len(Leases[g[1]]) : Leases[g[1]][i] = g[2]}
Off == [at |-> "off", time |-> 0]
Waiting == [at |-> "wait", time |-> 0]
Calling == [at |-> "call", time |-> 0]
AtMost(n, bound) == IF n < bound THEN n ELSE bound
AtLeast(n, bound) == IF n > bound THEN n ELSE bound

Key(w) == Leases[w][pos[w]]
Leaving(w) == pc[w] \in {"back", "exit", "unwind"}
Releasing(w) == Leaving(w) /\ age[w] = 1
InTask(w) == pc[w] \in {"task", "cycle"}

\* acquire_lease: the row may be taken when there is none, when it is not
\* ACTIVE, or when it had expired at the moment the caller read.
TakenAtOnce(k, delay) == TRUE
TakenOnceReleased(k, delay) == lease[k].status # "ACTIVE"
Takeable(k, delay) == lease[k].status # "ACTIVE" \/ lease[k].left <= - delay

\* heartbeat: the guard still owns an ACTIVE row that had not expired.
Renewable(w, k, delay) == /\ lease[k].owner = w /\ lease[k].status = "ACTIVE"
                          /\ lease[k].left > - delay

\* The expiry of a row that is not ACTIVE is never read again.
Closed(row, status) == [row EXCEPT !.status = status, !.left = - MaxDelay]

Renewed(w, delay) == [owner |-> w, status |-> "ACTIVE", left |-> TTL - delay]

\* release_lease: only the row of this guard, only while it is ACTIVE.
ReleasedByAnyone(w, k, status) == [lease EXCEPT ![k] = Closed(@, status)]
Released(w, k, status) ==
    IF lease[k].owner = w /\ lease[k].status = "ACTIVE"
    THEN [lease EXCEPT ![k] = Closed(@, status)] ELSE lease
-----------------------------------------------------------------------------
(* Taking the leases. *)

\* A worker on standby makes new guards and enters the first.  It has waited for
\* longer than a heartbeat of its old guards is under way; such a call has an old
\* token, so nothing is lost by letting it end first.
BeginEnter(w) ==
    /\ pc[w] = "standby"
    /\ \A g \in Guards : g[1] = w => thread[g] = Off
    /\ pc' = [pc EXCEPT ![w] = "enter"]
    /\ pos' = [pos EXCEPT ![w] = 1]
    /\ age' = [age EXCEPT ![w] = 0]
    /\ UNCHANGED <<lease, held, thread, since, errors>>

EnteredOrStandby(w, granted) ==
    LET others == \A i \in 1..(pos[w] - 1) : held[<<w, Leases[w][i]>>]
    IN  IF pos[w] < Len(Leases[w]) THEN "enter"
        ELSE IF granted /\ others THEN "task" ELSE "standby"

\* Where a worker goes from a lease it got or was refused: it enters every guard
\* and then looks at all of them.
Entered(w, granted) ==
    LET others == \A i \in 1..(pos[w] - 1) : held[<<w, Leases[w][i]>>]
    IN  IF pos[w] < Len(Leases[w]) THEN "enter"
        ELSE IF granted /\ others THEN "task" ELSE "back"

Acquire(w) ==
    /\ pc[w] = "enter"
    /\ LET k == Key(w)
           granted == Takeable(k, age[w])
           next == Entered(w, granted)
       IN  /\ lease' = IF granted THEN [lease EXCEPT ![k] = Renewed(w, age[w])] ELSE lease
           /\ held' = [held EXCEPT ![<<w, k>>] = granted]
           /\ thread' = IF granted THEN [thread EXCEPT ![<<w, k>>] = Waiting] ELSE thread
           /\ since' = [since EXCEPT ![<<w, k>>] = IF granted THEN age[w] ELSE 0]
           /\ pc' = [pc EXCEPT ![w] = next]
           /\ pos' = [pos EXCEPT ![w] = IF next = "enter" THEN @ + 1 ELSE @]
           /\ age' = [age EXCEPT ![w] = 0]
    /\ UNCHANGED <<errors>>

\* The statement raises: the stack leaves the guards it entered and the worker's
\* thread dies.
AcquireError(w) ==
    /\ pc[w] = "enter" /\ errors < MaxErrors
    /\ errors' = errors + 1
    /\ pc' = [pc EXCEPT ![w] = IF pos[w] = 1 THEN "failed" ELSE "unwind"]
    /\ pos' = [pos EXCEPT ![w] = IF @ = 1 THEN @ ELSE @ - 1]
    /\ age' = [age EXCEPT ![w] = 0]
    /\ UNCHANGED <<lease, held, thread, since>>
-----------------------------------------------------------------------------
(* The task, between two cycles or in one; nothing in it looks at the guards. *)
BeginCycle(w) ==
    /\ pc[w] = "task"
    /\ pc' = [pc EXCEPT ![w] = "cycle"]
    /\ UNCHANGED <<lease, pos, age, held, thread, since, errors>>

EndCycle(w) ==
    /\ pc[w] = "cycle"
    /\ pc' = [pc EXCEPT ![w] = "task"]
    /\ UNCHANGED <<lease, pos, age, held, thread, since, errors>>

\* The task is done, or its worker was stopped.
EndTask(w) ==
    /\ pc[w] = "task"
    /\ pc' = [pc EXCEPT ![w] = "exit"]
    /\ pos' = [pos EXCEPT ![w] = Len(Leases[w])]
    /\ UNCHANGED <<lease, age, held, thread, since, errors>>

\* A worker on standby is stopped.
StopWaiting(w) ==
    /\ pc[w] = "standby"
    /\ pc' = [pc EXCEPT ![w] = "ended"]
    /\ UNCHANGED <<lease, pos, age, held, thread, since, errors>>
-----------------------------------------------------------------------------
(* The heartbeat thread of a guard. *)
BeginBeat(w, k) ==
    /\ thread[<<w, k>>].at = "wait"
    /\ thread' = [thread EXCEPT ![<<w, k>>] = Calling]
    /\ UNCHANGED <<lease, pc, pos, age, held, since, errors>>

\* The guard has no lease any more; its thread goes on as `rest' says.
Lost(w, k, rest) ==
    /\ held' = [held EXCEPT ![<<w, k>>] = FALSE]
    /\ thread' = [thread EXCEPT ![<<w, k>>] = rest]
    /\ since' = [since EXCEPT ![<<w, k>>] = 0]

\* _stop is set: the guard is being left, or was.
Stopped(w, k) == ~held[<<w, k>>] \/ (Releasing(w) /\ Key(w) = k)

Beat(w, k) ==
    /\ thread[<<w, k>>].at = "call"
    /\ LET delay == thread[<<w, k>>].time
       IN  IF Renewable(w, k, delay)
           THEN /\ lease' = [lease EXCEPT ![k] = Renewed(w, delay)]
                /\ since' = [since EXCEPT ![<<w, k>>] = IF held[<<w, k>>] THEN delay ELSE 0]
                /\ thread' = [thread EXCEPT ![<<w, k>>] = IF Stopped(w, k) THEN Off ELSE Waiting]
                /\ UNCHANGED held
           ELSE Lost(w, k, Off) /\ UNCHANGED lease
    /\ UNCHANGED <<pc, pos, age, errors>>

BeatError(w, k) ==
    /\ thread[<<w, k>>].at = "call" /\ errors < MaxErrors
    /\ errors' = errors + 1
    /\ Lost(w, k, Off)
    /\ UNCHANGED <<lease, pc, pos, age>>
-----------------------------------------------------------------------------
(* Leaving the guards, the last one first. *)

\* What follows the last guard: a refused worker retries, a worker whose task
\* ended is done, and the exception ends the thread.
AfterExit(w) == CASE pc[w] = "back" -> "standby"
                  [] pc[w] = "exit" -> "ended"
                  [] pc[w] = "unwind" -> "failed"

\* A heartbeat that is under way goes on after its guard was left.
Left(w, k, halted) ==
    /\ Lost(w, k, IF thread[<<w, k>>].at = "call" THEN thread[<<w, k>>] ELSE Off)
    /\ pos' = [pos EXCEPT ![w] = IF @ = 1 THEN 1 ELSE @ - 1]
    /\ pc' = [pc EXCEPT ![w] = IF pos[w] = 1 THEN (IF halted THEN "failed" ELSE AfterExit(w))
                               ELSE IF halted THEN "unwind" ELSE @]

\* __exit__ reads guard.acquired after it waited two seconds for the thread: it
\* leaves at once when the lease was lost, and releases it otherwise.
ExitGuard(w) ==
    /\ Leaving(w) /\ age[w] = 0
    /\ IF held[<<w, Key(w)>>]
       THEN /\ age' = [age EXCEPT ![w] = 1]
            /\ thread' = [thread EXCEPT ![<<w, Key(w)>>] = IF @.at = "call" THEN @ ELSE Off]
            /\ UNCHANGED <<held, since, pos, pc>>
       ELSE Left(w, Key(w), FALSE) /\ UNCHANGED age
    /\ UNCHANGED <<lease, errors>>

Release(w) ==
    /\ Releasing(w)
    /\ lease' = Released(w, Key(w), IF pc[w] = "unwind" THEN "FAILED" ELSE "RELEASED")
    /\ age' = [age EXCEPT ![w] = 0]
    /\ Left(w, Key(w), FALSE)
    /\ UNCHANGED <<errors>>

\* The statement raises: the guards below are left, then the exception ends the
\* thread.
ReleaseError(w) ==
    /\ Releasing(w) /\ errors < MaxErrors
    /\ errors' = errors + 1
    /\ age' = [age EXCEPT ![w] = 0]
    /\ Left(w, Key(w), TRUE)
    /\ UNCHANGED <<lease>>
-----------------------------------------------------------------------------
(* The environment. *)

\* Time passes, in the rows, in the calls and in the guards.
Tick ==
    /\ \A w \in Workers : pc[w] = "enter" => age[w] < MaxDelay
    /\ \A g \in Guards : thread[g].at = "call" => thread[g].time < MaxDelay
    /\ lease' = [k \in Keys |-> [lease[k] EXCEPT !.left = AtLeast(@ - 1, - MaxDelay)]]
    /\ age' = [w \in Workers |-> IF pc[w] = "enter" THEN age[w] + 1 ELSE age[w]]
    /\ thread' = [g \in Guards |->
                    IF thread[g].at = "call" THEN [thread[g] EXCEPT !.time = @ + 1]
                    ELSE thread[g]]
    /\ since' = [g \in Guards |-> IF held[g] THEN AtMost(since[g] + 1, TTL) ELSE since[g]]
    /\ UNCHANGED <<pc, pos, held, errors>>

\* expire_stale_leases, called by the monitoring worker and the health route.
ExpireStaleLeases ==
    /\ lease' = [k \in Keys |-> IF lease[k].status = "ACTIVE" /\ lease[k].left <= 0
                                THEN Closed(lease[k], "EXPIRED") ELSE lease[k]]
    /\ UNCHANGED <<pc, pos, age, held, thread, since, errors>>

\* The process of a worker dies, with its threads; one that is past its task has at
\* most a heartbeat under way.
Crash(w) ==
    /\ pc[w] # "dead"
    /\ pc' = [pc EXCEPT ![w] = IF @ \in {"ended", "failed"} THEN @ ELSE "dead"]
    /\ pos' = [pos EXCEPT ![w] = 1]
    /\ age' = [age EXCEPT ![w] = 0]
    /\ held' = [g \in Guards |-> IF g[1] = w THEN FALSE ELSE held[g]]
    /\ thread' = [g \in Guards |-> IF g[1] = w THEN Off ELSE thread[g]]
    /\ since' = [g \in Guards |-> IF g[1] = w THEN 0 ELSE since[g]]
    /\ UNCHANGED <<lease, errors>>
-----------------------------------------------------------------------------
Init ==
    /\ lease = [k \in Keys |-> [owner |-> NoOne, status |-> "NONE", left |-> - MaxDelay]]
    /\ pc = [w \in Workers |-> "standby"]
    /\ pos = [w \in Workers |-> 1]
    /\ age = [w \in Workers |-> 0]
    /\ held = [g \in Guards |-> FALSE]
    /\ thread = [g \in Guards |-> Off]
    /\ since = [g \in Guards |-> 0]
    /\ errors = 0

\* The steps of a worker's own thread that the scheduler owes it.
Proceed(w) == BeginEnter(w) \/ Acquire(w) \/ ExitGuard(w) \/ Release(w)

Next ==
    \/ \E w \in Workers : \/ Proceed(w) \/ AcquireError(w) \/ ReleaseError(w)
                          \/ BeginCycle(w) \/ EndCycle(w) \/ EndTask(w)
                          \/ StopWaiting(w) \/ Crash(w)
    \/ \E g \in Guards : BeginBeat(g[1], g[2]) \/ Beat(g[1], g[2]) \/ BeatError(g[1], g[2])
    \/ Tick \/ ExpireStaleLeases

\* Threads that can run are scheduled, statements return, and time passes.
Fairness ==
    /\ \A w \in Workers : WF_vars(Proceed(w))
    /\ \A g \in Guards : WF_vars(Beat(g[1], g[2]))
    /\ WF_vars(Tick)

Spec == Init /\ [][Next]_vars /\ Fairness
-----------------------------------------------------------------------------
Statuses == {"NONE", "ACTIVE", "RELEASED", "FAILED", "EXPIRED"}
Places == {"standby", "enter", "task", "cycle", "back", "exit", "unwind",
           "ended", "failed", "dead"}

\* The rows, the guards and the threads have their shapes; no lease is good for
\* more than its TTL.
TypeOK ==
    /\ lease \in [Keys -> [owner : Workers \cup {NoOne}, status : Statuses, left : Int]]
    /\ \A k \in Keys : lease[k].left <= TTL
    /\ pc \in [Workers -> Places]
    /\ pos \in [Workers -> Nat \ {0}]
    /\ age \in [Workers -> Nat]
    /\ held \in [Guards -> BOOLEAN]
    /\ thread \in [Guards -> [at : {"off", "wait", "call"}, time : Nat]]
    /\ since \in [Guards -> Nat]
    /\ errors \in Nat

Live(k) == lease[k].status = "ACTIVE" /\ lease[k].left > 0

\* A lease is exclusive as long as it is renewed: of two guards that both think
\* they have the same lease, one has not renewed it for a whole TTL.
SingleOwner == \A g, h \in Guards :
    g[2] = h[2] /\ g[1] # h[1] /\ held[g] /\ held[h]
        => since[g] >= TTL \/ since[h] >= TTL

\* A live lease is ended by its owner only, when it leaves its guard: a late
\* heartbeat, a late release and a takeover never touch the lease of a successor.
OnlyOwnerEndsLease == [][\A k \in Keys :
    LET w == lease[k].owner
    IN  /\ Live(k)
        /\ lease'[k].owner # w \/ lease'[k].status # "ACTIVE"
        => Releasing(w) /\ ~held'[<<w, k>>]]_vars

\* A refused or finished worker keeps nothing: on standby and after its end no
\* thread of it goes on renewing a lease and, unless a statement failed, no live
\* row is its, also when a heartbeat was under way while it left.
NoLeaseLeftBehind == \A g \in Guards :
    pc[g[1]] \in {"standby", "ended"} =>
        /\ thread[g].at # "wait"
        /\ errors = 0 /\ lease[g[2]].owner = g[1] => ~Live(g[2])

Alone(w) == /\ pc[w] = "standby"
            /\ \A v \in Workers \ {w} :
                 /\ pc[v] \in {"ended", "failed", "dead"}
                 /\ \A g \in Guards : g[1] = v => thread[g] = Off
Settled(w) == InTask(w) \/ pc[w] \in {"ended", "dead"}

\* "The replacement worker must retry after the previous container releases or
\* loses its lease": once every other worker is gone it gets to its task, or is
\* stopped or dies itself, unless a statement fails.
ReplacementTakesOver == \A w \in Workers :
    Alone(w) ~> Settled(w) \/ errors > 0

=============================================================================
