------------------------- MODULE ExchangeConnections -------------------------
(***************************************************************************)
(* Private exchange connections: stored credentials, the test that asks    *)
(* the exchange what they may do, and the switch that enables a connection *)
(* (backend/connections/repository.py, crypto.py and providers.py, with    *)
(* the routes of backend/api/exchange_connection_routes.py).               *)
(*                                                                         *)
(* Credentials stand for themselves, with the version of the master key    *)
(* that encrypts them; Grants says what each may do at the exchange.       *)
(* Requests run beside each other, and those that read a row and write it  *)
(* later do so in two transactions.                                        *)
(***************************************************************************)
EXTENDS Integers, Sequences, FiniteSets

CONSTANTS
    Connections,        \* ids of connections
    Credentials,
    Grants,             \* credential -> its permissions at the exchange
    WebUsers,           \* requests that may be under way together
    MaxKeyVersion,      \* bound: the operator's rotations of the master key
    MaxEvents           \* bound: audit events of a connection

ASSUME ConnectionBounds ==
    /\ {MaxKeyVersion, MaxEvents} \subseteq Nat
    /\ Grants \in [Credentials -> SUBSET {"read", "trade", "withdraw"}]

VARIABLES
    keyVersion,     \* the current master key; earlier ones stay in the keyring or are dropped
    keyring,        \* the versions the service can decrypt with
    connection,     \* id -> its row of exchange_connections
    audit,          \* id -> its exchange_connection_events, in their order
    request         \* user -> what the request read and has still to write

connectionVars == <<keyVersion, keyring, connection, audit, request>>
-----------------------------------------------------------------------------
NoConnection == [exists |-> FALSE, credential |-> "none", key |-> 0, disabled |-> TRUE, status |-> "none", permissions |-> {}]
NoWork == [at |-> "idle", id |-> "none", credential |-> "none", report |-> {}]

\* _event: the audit row of the same transaction.
Event(id, action) ==
    /\ Len(audit[id]) < MaxEvents
    /\ audit' = [audit EXCEPT ![id] = Append(@, action)]

\* EnvelopeCipher.encrypt: under the current key.  The insert takes the defaults of
\* the table: disabled and not tested.
Encrypted(credential) ==
    [exists |-> TRUE, credential |-> credential, key |-> keyVersion, disabled |-> TRUE, status |-> "NOT_TESTED", permissions |-> {}]

\* ConnectionTester.test: what the exchange reports, the same for both exchanges.
Report(credential) == Grants[credential]

\* ConnectionPermissionReport, as record_test judges it.
Unsafe(report) == report \cap {"trade", "withdraw"} # {}
TestStatus(report) ==
    IF Unsafe(report) THEN "WITHDRAWAL_PERMISSION" ELSE IF "read" \in report THEN "CONNECTED" ELSE "FAILED"
-----------------------------------------------------------------------------
CreateConnection(id, credential) ==
    /\ ~connection[id].exists
    /\ connection' = [connection EXCEPT ![id] = Encrypted(credential)]
    /\ Event(id, "ADDED")
    /\ UNCHANGED <<keyVersion, keyring, request>>

\* The row is locked while it is replaced: one step.
ReplaceConnection(id, credential) ==
    /\ connection[id].exists
    /\ connection' = [connection EXCEPT ![id] = Encrypted(credential)]
    /\ Event(id, "REPLACED")
    /\ UNCHANGED <<keyVersion, keyring, request>>

\* test_connection and rotate_connection read the row, decrypt it and go on with what
\* they read.  A key that left the keyring ends the request with 503.
ReadConnection(u, id, purpose) ==
    /\ request[u].at = "idle" /\ connection[id].exists
    /\ connection[id].key \in keyring
    /\ request' = [request EXCEPT ![u] = [at |-> purpose, id |-> id, credential |-> connection[id].credential, report |-> {}]]
    /\ UNCHANGED <<keyVersion, keyring, connection, audit>>

\* The exchange answers; or the request fails, which record_test is told as no report.
ExchangeAnswers(u) ==
    /\ request[u].at = "test"
    /\ \E report \in {Report(request[u].credential), {}} :
        request' = [request EXCEPT ![u].at = "record", ![u].report = report]
    /\ UNCHANGED <<keyVersion, keyring, connection, audit>>

DisabledByOutcome(row, report) == Unsafe(report)
DisabledAfterTest(row, report) == row.disabled \/ Unsafe(report)
RecordTest(u) ==
    /\ request[u].at = "record"
    /\ LET id == request[u].id
           report == request[u].report
           status == TestStatus(report)
       IN  IF ~connection[id].exists THEN UNCHANGED <<connection, audit>>
           ELSE /\ connection' = [connection EXCEPT ![id] =
                        [@ EXCEPT !.status = status, !.permissions = report, !.disabled = DisabledAfterTest(connection[id], report)]]
                /\ Event(id, CASE status = "CONNECTED" -> "TEST_SUCCEEDED" [] status = "FAILED" -> "TEST_FAILED" [] OTHER -> status)
    /\ request' = [request EXCEPT ![u] = NoWork]
    /\ UNCHANGED <<keyVersion, keyring>>

\* rotate: the credentials that were read, encrypted again with today's key.
UpdateEncryption(u) ==
    /\ request[u].at = "rotate"
    /\ LET id == request[u].id
       IN  IF ~connection[id].exists THEN UNCHANGED <<connection, audit>>
           ELSE /\ connection' = [connection EXCEPT ![id].credential = request[u].credential, ![id].key = keyVersion]
                /\ Event(id, "ROTATED")
    /\ request' = [request EXCEPT ![u] = NoWork]
    /\ UNCHANGED <<keyVersion, keyring>>

\* set_disabled: the check follows the update, and its exception takes the update back.
Enableable(row) == ~Unsafe(row.permissions)
SetDisabled(id, disabled) ==
    /\ connection[id].exists
    /\ disabled \/ Enableable(connection[id])
    /\ connection' = [connection EXCEPT ![id] =
            [@ EXCEPT !.disabled = disabled,
                      !.status = IF disabled THEN "DISABLED" ELSE IF @ = "DISABLED" THEN "NOT_TESTED" ELSE @]]
    /\ Event(id, IF disabled THEN "DISABLED" ELSE "ENABLED")
    /\ UNCHANGED <<keyVersion, keyring, request>>

DeleteConnection(id) ==
    /\ connection[id].exists
    /\ connection' = [connection EXCEPT ![id] = NoConnection]
    /\ Event(id, "DELETED")
    /\ UNCHANGED <<keyVersion, keyring, request>>

\* MasterKeyring.from_environment: the operator restarts the service with a new key and
\* keeps the previous ones, or drops those.  Requests end with the process.
ChangeKeyring(kept) ==
    /\ keyVersion < MaxKeyVersion
    /\ keyVersion' = keyVersion + 1
    /\ keyring' = (keyring \cap kept) \cup {keyVersion + 1}
    /\ request' = [u \in WebUsers |-> NoWork]
    /\ UNCHANGED <<connection, audit>>
-----------------------------------------------------------------------------
ConnectionInit ==
    /\ keyVersion = 1 /\ keyring = {1}
    /\ connection = [id \in Connections |-> NoConnection]
    /\ audit = [id \in Connections |-> <<>>]
    /\ request = [u \in WebUsers |-> NoWork]

ConnectionNext ==
    \/ \E id \in Connections :
        \/ \E credential \in Credentials : CreateConnection(id, credential) \/ ReplaceConnection(id, credential)
        \/ \E u \in WebUsers, purpose \in {"test", "rotate"} : ReadConnection(u, id, purpose)
        \/ \E disabled \in BOOLEAN : SetDisabled(id, disabled)
        \/ DeleteConnection(id)
    \/ \E u \in WebUsers : ExchangeAnswers(u) \/ RecordTest(u) \/ UpdateEncryption(u)
    \/ \E kept \in SUBSET keyring : ChangeKeyring(kept)

ConnectionSpec == ConnectionInit /\ [][ConnectionNext]_connectionVars
-----------------------------------------------------------------------------
\* The last of the events that decide whether the connection is disabled.
Deciding(id) ==
    LET at == {i \in DOMAIN audit[id] : audit[id][i] \in {"ADDED", "REPLACED", "WITHDRAWAL_PERMISSION", "DISABLED", "ENABLED"}}
    IN  audit[id][CHOOSE i \in at : \A j \in at : j <= i]

\* A connection whose last test found trading or withdrawal permissions is disabled and
\* stays so until its credentials are replaced or a later test takes the finding back,
\* also when tests, replacements and switches of several users cross; and the audit
\* trail alone tells whether a connection is enabled.
UnsafeStaysDisabled ==
    \A id \in Connections : connection[id].exists =>
        /\ Unsafe(connection[id].permissions) => connection[id].disabled
        /\ connection[id].disabled <=> Deciding(id) # "ENABLED"
=============================================================================
