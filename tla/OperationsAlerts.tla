-------------------------- MODULE OperationsAlerts --------------------------
(***************************************************************************)
(* Monitoring: the worker that looks for faults in turn, the alerts it     *)
(* raises and the notices it sends (backend/monitoring/service.py,         *)
(* repository.py and notifications.py), and the operators who acknowledge  *)
(* and resolve alerts.  The lease of the worker may expire while it works, *)
(* so that two processes monitor at the same time.                         *)
(*                                                                         *)
(* A kind of fault stands for the fingerprint of its alert; CycleFault is  *)
(* that of a failed monitoring cycle.                                      *)
(***************************************************************************)
EXTENDS Integers, Sequences, FiniteSets

CONSTANTS
    Monitors,
    FaultKinds,
    Adapters,           \* the notification channels, a sequence
    Cooldown,
    MaxAlertTime,       \* bound: the clock
    MaxAlertRows        \* bound: alerts

ASSUME AlertBounds == Cooldown \in Nat \ {0} /\ {MaxAlertTime, MaxAlertRows} \subseteq Nat
ASSUME MonitoringIsFinite == IsFiniteSet(Monitors) /\ Adapters \in Seq({Adapters[c] : c \in DOMAIN Adapters})

CycleFault == "cycle"

VARIABLES
    alertNow,
    alertRows,          \* operational_alerts, with the number of notices sent per channel
    monitorLease,       \* the owner of the monitoring lease, or "nobody"
    monitor             \* process -> where its worker is

alertVars == <<alertNow, alertRows, monitorLease, monitor>>
-----------------------------------------------------------------------------
NoMonitor == [at |-> "off", todo |-> {}, kind |-> CycleFault, moment |-> 0, row |-> 0, channel |-> 0]
Unresolved(kind) == {i \in DOMAIN alertRows : alertRows[i].kind = kind /\ alertRows[i].status # "RESOLVED"}
NewAlert(kind, moment) ==
    [kind |-> kind, status |-> "OPEN", first |-> moment, until |-> moment + Cooldown,
     notices |-> [c \in DOMAIN Adapters |-> 0]]
-----------------------------------------------------------------------------
AlertTick ==
    /\ alertNow < MaxAlertTime
    /\ alertNow' = alertNow + 1
    /\ UNCHANGED <<alertRows, monitorLease, monitor>>

\* run: without the lease the worker returns.
StartMonitor(m) ==
    /\ monitor[m].at = "off" /\ monitorLease = "nobody"
    /\ monitorLease' = m
    /\ monitor' = [monitor EXCEPT ![m] = [NoMonitor EXCEPT !.at = "collect", !.todo = FaultKinds]]
    /\ UNCHANGED <<alertNow, alertRows>>

\* No heartbeat came in time: expire_stale_leases.
MonitorLeaseExpires ==
    /\ monitorLease # "nobody"
    /\ monitorLease' = "nobody"
    /\ UNCHANGED <<alertNow, alertRows, monitor>>

\* collect: the next fault, which may be there or not.  The time of its alert is read
\* before the transaction.
ExamineFault(m, kind, found) ==
    /\ monitor[m].at = "collect" /\ kind \in monitor[m].todo
    /\ LET left == monitor[m].todo \ {kind}
       IN  monitor' = [monitor EXCEPT ![m] =
               IF found
               THEN [@ EXCEPT !.at = "raise", !.todo = left, !.kind = kind, !.moment = alertNow]
               ELSE [@ EXCEPT !.todo = left]]
    /\ UNCHANGED <<alertNow, alertRows, monitorLease>>

\* raise_alert: one transaction; the notice is due when the cooldown is over.
AfterAlert(task) ==
    [NoMonitor EXCEPT !.at = IF task.kind = CycleFault THEN "wait" ELSE "collect", !.todo = task.todo]
NoticeDueAlways(alert, moment) == TRUE
NoticeDue(alert, moment) == alert.until <= moment
RaiseAlert(m) ==
    /\ monitor[m].at = "raise"
    /\ LET task == monitor[m]
           rows == Unresolved(task.kind)
       IN  IF rows = {}
           THEN /\ Len(alertRows) < MaxAlertRows
                /\ alertRows' = Append(alertRows, NewAlert(task.kind, task.moment))
                /\ monitor' = [monitor EXCEPT ![m] = [task EXCEPT !.at = "send", !.row = Len(alertRows) + 1, !.channel = 1]]
           ELSE LET i == CHOOSE r \in rows : TRUE
                    due == NoticeDue(alertRows[i], task.moment)
                IN  /\ alertRows' = [alertRows EXCEPT ![i].until = IF due THEN task.moment + Cooldown ELSE @]
                    /\ monitor' = [monitor EXCEPT ![m] =
                           IF due THEN [task EXCEPT !.at = "send", !.row = i, !.channel = 1] ELSE AfterAlert(task)]
    /\ UNCHANGED <<alertNow, monitorLease>>

\* dispatch: a channel that fails does not keep the next one from its notice.
SendNotice(m, sent) ==
    /\ monitor[m].at = "send"
    /\ alertRows' = [alertRows EXCEPT ![monitor[m].row].notices[monitor[m].channel] = IF sent THEN @ + 1 ELSE @]
    /\ monitor' = [monitor EXCEPT ![m].at = "record"]
    /\ UNCHANGED <<alertNow, monitorLease>>

\* record_delivery keeps the outcome, SENT or FAILED, which nothing reads.
RecordDelivery(m) ==
    /\ monitor[m].at = "record"
    /\ LET task == monitor[m]
       IN  monitor' = [monitor EXCEPT ![m] =
               IF task.channel < Len(Adapters) THEN [task EXCEPT !.at = "send", !.channel = task.channel + 1]
               ELSE AfterAlert(task)]
    /\ UNCHANGED <<alertNow, alertRows, monitorLease>>

\* An error of the database, also the conflict of two alerts for one fingerprint: the
\* rest of the cycle is dropped for an alert of its own.  When that one fails as well,
\* the worker ends.
CycleFails(m) ==
    /\ monitor[m].at \in {"collect", "raise", "record"}
    /\ monitor' = [monitor EXCEPT ![m] =
           IF @.kind = CycleFault /\ @.at # "collect" THEN NoMonitor
           ELSE [NoMonitor EXCEPT !.at = "raise", !.moment = alertNow]]
    /\ UNCHANGED <<alertNow, alertRows, monitorLease>>

\* heartbeat, at the end of a cycle: the worker that lost its lease ends.
FinishCycle(m) ==
    /\ monitor[m].at = "collect" /\ monitor[m].todo = {}
    /\ monitor' = [monitor EXCEPT ![m] = IF monitorLease = m THEN [NoMonitor EXCEPT !.at = "wait"] ELSE NoMonitor]
    /\ UNCHANGED <<alertNow, alertRows, monitorLease>>
NextCycle(m) ==
    /\ monitor[m].at = "wait"
    /\ monitor' = [monitor EXCEPT ![m] = [NoMonitor EXCEPT !.at = "collect", !.todo = FaultKinds]]
    /\ UNCHANGED <<alertNow, alertRows, monitorLease>>

\* stop, and release_lease by the owner.
StopMonitor(m) ==
    /\ monitor[m].at = "wait"
    /\ monitor' = [monitor EXCEPT ![m] = NoMonitor]
    /\ monitorLease' = IF monitorLease = m THEN "nobody" ELSE monitorLease
    /\ UNCHANGED <<alertNow, alertRows>>

\* The process dies: its lease stays until it expires.
MonitorDies(m) ==
    /\ monitor[m].at # "off"
    /\ monitor' = [monitor EXCEPT ![m] = NoMonitor]
    /\ UNCHANGED <<alertNow, alertRows, monitorLease>>

AcknowledgeAlert(i) ==
    /\ alertRows[i].status = "OPEN"
    /\ alertRows' = [alertRows EXCEPT ![i].status = "ACKNOWLEDGED"]
    /\ UNCHANGED <<alertNow, monitorLease, monitor>>
ResolveAlert(i) ==
    /\ alertRows[i].status # "RESOLVED"
    /\ alertRows' = [alertRows EXCEPT ![i].status = "RESOLVED"]
    /\ UNCHANGED <<alertNow, monitorLease, monitor>>
-----------------------------------------------------------------------------
AlertInit ==
    /\ alertNow = 0 /\ alertRows = <<>> /\ monitorLease = "nobody"
    /\ monitor = [m \in Monitors |-> NoMonitor]

AlertNext ==
    \/ AlertTick \/ MonitorLeaseExpires
    \/ \E i \in DOMAIN alertRows : AcknowledgeAlert(i) \/ ResolveAlert(i)
    \/ \E m \in Monitors :
        \/ StartMonitor(m) \/ RaiseAlert(m) \/ RecordDelivery(m) \/ CycleFails(m)
        \/ FinishCycle(m) \/ NextCycle(m) \/ StopMonitor(m) \/ MonitorDies(m)
        \/ \E yes \in BOOLEAN : SendNotice(m, yes) \/ \E kind \in FaultKinds : ExamineFault(m, kind, yes)

AlertSpec == AlertInit /\ [][AlertNext]_alertVars
-----------------------------------------------------------------------------
\* An alert sends each channel one notice at first and then at most one per cooldown,
\* whatever monitors raise it, with whatever delay after they read the time, and
\* whoever dies between the alert and the notice.
NoticesKeepCooldown ==
    \A i \in DOMAIN alertRows : \A c \in DOMAIN Adapters :
        alertRows[i].notices[c] <= 1 + (alertNow - alertRows[i].first) \div Cooldown
=============================================================================
